---- MODULE Spec2Model ----
(***************************************************************************)
(* Column language front end: Tokenizer (tokenizer.ts), indentation Lexer  *)
(* (lexer/Lexer.ts), recursive-descent Parser (parser.ts) and Interpreter  *)
(* (interpreter.ts), and the parseString entry point (index.ts).           *)
(*                                                                         *)
(* A source text is a sequence of one-character strings.  A token is a     *)
(* record [type, value, position], value being a sequence of characters    *)
(* and position a record [line, column, index].                            *)
(***************************************************************************)
EXTENDS Integers, Sequences, FiniteSets, TLC

VARIABLES
    pc,            \* position of the pipeline: which stage runs next
    source,        \* the source text handed to the Tokenizer
    env,           \* InterpretOptions.env: the supplied environment map
    rawTokens,     \* the list returned by Tokenizer.tokenize()
    i,             \* Lexer.processTokens: index into rawTokens (0-based)
    currentIndent, \* Lexer.processTokens: indent level of the current line
    lastLineNumber,\* Lexer.processTokens: line of the last line transition
    indentStack,   \* Lexer.indentStack
    tokens,        \* Lexer.tokens, the list lex() returns; the Parser's input
    ast,           \* the Document returned by Parser.parse()
    data,          \* InterpretResult.data
    meta,          \* InterpretResult.meta (options.includeMeta is true)
    error          \* the error raised by the pipeline, or NoError

vars == <<pc, source, env, rawTokens, i, currentIndent, lastLineNumber,
          indentStack, tokens, ast, data, meta, error>>

-----------------------------------------------------------------------------
(* Characters and strings                                                  *)

NUL == "NUL"   \* the "\0" that current/next/peek return past the end
Backquote == "BQ"   \* the backquote character that delimits raw content

LowerCase == {"a","b","c","d","e","f","g","h","i","j","k","l","m",
              "n","o","p","q","r","s","t","u","v","w","x","y","z"}
UpperCase == {"A","B","C","D","E","F","G","H","I","J","K","L","M",
              "N","O","P","Q","R","S","T","U","V","W","X","Y","Z"}
Digits == {"0","1","2","3","4","5","6","7","8","9"}

\* /[a-zA-Z0-9_-]/
IsKeyStart(c) == c \in LowerCase \cup UpperCase \cup Digits \cup {"_", "-"}
\* /[a-zA-Z0-9_\-\.\^+]/
IsIdentChar(c) == c \in LowerCase \cup UpperCase \cup Digits \cup {"_", "-", ".", "^", "+"}
\* /[A-Z0-9_]/
IsEnvNameChar(c) == c \in UpperCase \cup Digits \cup {"_"}
\* the characters String.prototype.trim and \s take for white space
IsSpace(c) == c \in {" ", "\t", "\n", "\r"}
IsBlank(c) == c \in {" ", "\t"}

\* String.prototype.trim
Trim(s) ==
    LET keep == {n \in 1..Len(s) : ~IsSpace(s[n])}
    IN  IF keep = {} THEN <<>>
        ELSE LET lo == CHOOSE n \in keep : \A m \in keep : n <= m
                 hi == CHOOSE n \in keep : \A m \in keep : m <= n
             IN  SubSeq(s, lo, hi)

\* String.prototype.substring(n)
Substring(s, n) == IF n >= Len(s) THEN <<>> ELSE SubSeq(s, n + 1, Len(s))

Repeat(n, x) == [k \in 1..n |-> x]

\* `const value = ...; Body`: the value is computed once and named in Body
With(value, Body(_)) == CHOOSE y \in {Body(x) : x \in {value}} : TRUE
\* the same for the result of a call that may throw: the error is passed on
Then(result, Body(_)) ==
    CHOOSE y \in {IF ~x.ok THEN x ELSE Body(x) : x \in {result}} : TRUE

\* Array.prototype.join("\n")
RECURSIVE JoinLines(_)
JoinLines(ls) ==
    IF Len(ls) = 0 THEN <<>>
    ELSE IF Len(ls) = 1 THEN ls[1]
    ELSE ls[1] \o <<"\n">> \o JoinLines(Tail(ls))

\* a sequence of characters as a string
RECURSIVE Str(_)
Str(s) == IF s = <<>> THEN "" ELSE Head(s) \o Str(Tail(s))

-----------------------------------------------------------------------------
(* Tokenizer                                                               *)

Token(type, value, line, column, index) ==
    [type |-> type, value |-> value,
     position |-> [line |-> line, column |-> column, index |-> index]]

StartPosition == [index |-> 0, line |-> 1, column |-> 1]

\* Tokenizer.current, Tokenizer.next, Tokenizer.peek
CharAt(src, index) == IF index < Len(src) THEN src[index + 1] ELSE NUL
Current(src, p) == CharAt(src, p.index)
NextChar(src, p) == CharAt(src, p.index + 1)
Peek(src, p, n) == CharAt(src, p.index + n)
HasMore(src, p) == p.index < Len(src)

\* Tokenizer.advance, applied until the index is j
AdvanceTo(src, p, j) ==
    LET nls == {q \in (p.index + 1)..j : src[q] = "\n"}
    IN  IF nls = {}
        THEN [index |-> j, line |-> p.line, column |-> p.column + (j - p.index)]
        ELSE LET last == CHOOSE q \in nls : \A r \in nls : r <= q
             IN  [index |-> j, line |-> p.line + Cardinality(nls),
                  column |-> 1 + (j - last)]
Advance(src, p) == AdvanceTo(src, p, p.index + 1)

\* the index at which a loop `while (hasMore && Go(current)) advance()` stops
ScanWhile(src, from, Go(_)) ==
    CHOOSE j \in from..Len(src) :
        /\ \A k \in from..(j - 1) : Go(src[k + 1])
        /\ (j = Len(src) \/ ~Go(src[j + 1]))

\* the text of src between two indexes (0-based, end excluded)
Slice(src, from, to) == IF to <= from THEN <<>> ELSE SubSeq(src, from + 1, to)

\* the inline-comment lead-in that ends a value or a default value
IsCommentLead(src, index) ==
    /\ CharAt(src, index) = "/"
    /\ CharAt(src, index + 1) \in {"/", "=", "!"}

\* the index at which `while (hasMore && current !== "\n" && !lead-in)` stops
ScanValue(src, from) ==
    CHOOSE j \in from..Len(src) :
        /\ \A k \in from..(j - 1) : src[k + 1] # "\n" /\ ~IsCommentLead(src, k)
        /\ (j = Len(src) \/ src[j + 1] = "\n" \/ IsCommentLead(src, j))

\* a step of the tokenizer: the token read, the position after it, or an error
TokenResult(tok, p) == [ok |-> TRUE, token |-> tok, position |-> p]
TokenError(msg, p) == [ok |-> FALSE, code |-> "TOKENIZATION_ERROR", message |-> msg, position |-> p]

\* Tokenizer.createToken
createToken(p, type, value) ==
    LET startIndex == p.index - Len(value)
        startColumn == p.column - Len(value)
    IN  Token(type, value, p.line,
              IF type = "NEWLINE" THEN startColumn ELSE startColumn + 1,
              startIndex)

\* Tokenizer.readIdentifier
readIdentifier(src, p) ==
    LET j == ScanWhile(src, p.index, IsIdentChar)
        value == Slice(src, p.index, j)
        q == AdvanceTo(src, p, j)
    IN  TokenResult(Token("KEY", value, q.line, p.column, q.index - Len(value)), q)

\* the loops of readQuotedKey and readRawContent: the index of the closing
\* delimiter (or the end of the source) and the value read up to it
RECURSIVE QuotedBody(_, _, _)
QuotedBody(src, index, value) ==
    IF index >= Len(src) \/ src[index + 1] = "\""
    THEN [index |-> index, value |-> value]
    ELSE IF src[index + 1] = "\\"
    THEN LET c == CharAt(src, index + 1)
             esc == IF c = "n" THEN "\n" ELSE IF c = "t" THEN "\t"
                    ELSE IF c = "r" THEN "\r" ELSE c
         IN  QuotedBody(src, index + 2, Append(value, esc))
    ELSE QuotedBody(src, index + 1, Append(value, src[index + 1]))

RECURSIVE RawBody(_, _, _)
RawBody(src, index, value) ==
    IF index >= Len(src) \/ src[index + 1] = Backquote
    THEN [index |-> index, value |-> value]
    ELSE IF src[index + 1] = "\\"
    THEN LET c == CharAt(src, index + 1)
         IN  RawBody(src, index + 2,
                     IF c = Backquote THEN Append(value, Backquote) ELSE value \o <<"\\", c>>)
    ELSE RawBody(src, index + 1, Append(value, src[index + 1]))

\* advance() past the end of the source still counts the index and the column
AdvancePast(src, p, j) ==
    IF j <= Len(src) THEN AdvanceTo(src, p, j)
    ELSE LET q == AdvanceTo(src, p, Len(src))
         IN  [q EXCEPT !.index = j, !.column = q.column + (j - Len(src))]

\* Tokenizer.readQuotedKey
readQuotedKey(src, p) ==
    LET body == QuotedBody(src, p.index + 1, <<>>)
        atEnd == AdvancePast(src, p, body.index)
    IN  IF body.index >= Len(src)
        THEN TokenError("Unterminated quoted key", atEnd)
        ELSE LET q == AdvanceTo(src, p, body.index + 1)
             IN  TokenResult(Token("KEY", body.value, q.line, p.column,
                                   q.index - Len(body.value) - 2), q)

\* Tokenizer.readRawContent
readRawContent(src, p) ==
    LET body == RawBody(src, p.index + 1, <<>>)
        atEnd == AdvancePast(src, p, body.index)
    IN  IF body.index >= Len(src)
        THEN TokenError("Unterminated raw content", atEnd)
        ELSE LET q == AdvanceTo(src, p, body.index + 1)
             IN  TokenResult(Token("RAW_CONTENT", body.value, q.line, p.column,
                                   q.index - Len(body.value) - 2), q)

\* Tokenizer.readComment, readNotice, readTodoComment: the marker, then the
\* rest of the line
readLineComment(src, p, type, marker) ==
    LET j == ScanWhile(src, p.index + Len(marker), LAMBDA c : c # "\n")
        value == marker \o Slice(src, p.index + Len(marker), j)
        q == AdvanceTo(src, p, j)
    IN  TokenResult(Token(type, value, q.line, p.column,
                          q.index - Len(value) + Len(marker)), q)
readComment(src, p) == readLineComment(src, p, "COMMENT", <<"/", "/">>)
readNotice(src, p) == readLineComment(src, p, "NOTICE", <<"/", "!">>)
readTodoComment(src, p) == readLineComment(src, p, "TODO_COMMENT", <<"/", "=", ">">>)

\* Tokenizer.readNamespaceDeclaration, readSectionDeclaration
readDeclaration(src, p, type, marker) ==
    LET j == ScanWhile(src, p.index + 2, LAMBDA c : c # "\n" /\ c # "/")
        value == marker \o Slice(src, p.index + 2, j)
        q == AdvanceTo(src, p, j)
    IN  TokenResult(Token(type, Trim(value), q.line, p.column,
                          q.index - Len(value) + 2), q)
readNamespaceDeclaration(src, p) ==
    readDeclaration(src, p, "NAMESPACE_DECLARATION", <<"@", "-">>)
readSectionDeclaration(src, p) ==
    readDeclaration(src, p, "SECTION_DECLARATION", <<"@", "/">>)

\* Tokenizer.readListItem
readListItem(src, p) ==
    LET q1 == Advance(src, p)
    IN  IF Current(src, q1) # " "
        THEN TokenError("List item marker must be followed by a space", q1)
        ELSE LET q == Advance(src, q1)
             IN  TokenResult(Token("LIST_ITEM", <<"-">>, q.line, p.column, q.index - 2), q)

\* Tokenizer.readEnvVar
readEnvVar(src, p) ==
    LET nameEnd == ScanWhile(src, p.index + 2, IsEnvNameChar)
        name == <<"$", "_">> \o Slice(src, p.index + 2, nameEnd)
        bar == ScanWhile(src, nameEnd, IsBlank)
        hasDefault == CharAt(src, bar) = "|" /\ CharAt(src, bar + 1) = "|"
        j == IF hasDefault THEN ScanValue(src, ScanWhile(src, bar + 2, IsBlank)) ELSE bar
        value == IF hasDefault
                 THEN name \o <<" ", "|", "|">> \o Slice(src, bar + 2, j)
                 ELSE name
        q == AdvanceTo(src, p, j)
    IN  TokenResult(Token("ENV_VAR", value, q.line, p.column, q.index - Len(value)), q)

\* Tokenizer.readValue (no branch of nextToken reaches it: white space is
\* consumed before the dispatch gets to the call)
readValue(src, p) ==
    LET s == AdvanceTo(src, p, ScanWhile(src, p.index, IsBlank))
    IN  IF Current(src, s) = "|" /\ NextChar(src, s) = "+"
        THEN TokenResult(Token("MULTILINE_START", <<"|", "+">>, s.line, s.column, s.index),
                         AdvanceTo(src, s, s.index + 2))
        ELSE IF Current(src, s) \in {"|", "<"}
        THEN TokenResult(Token("MULTILINE_START", <<Current(src, s)>>, s.line, s.column, s.index),
                         Advance(src, s))
        ELSE IF Current(src, s) = Backquote THEN readRawContent(src, s)
        ELSE IF Current(src, s) = "$" /\ NextChar(src, s) = "_" THEN readEnvVar(src, s)
        ELSE LET j == ScanValue(src, s.index)
                 value == Slice(src, s.index, j)
                 q == AdvanceTo(src, s, j)
             IN  TokenResult(Token("VALUE", Trim(value), q.line, p.column,
                                   q.index - Len(value)), q)

\* Tokenizer.nextToken
RECURSIVE nextToken(_, _)
nextToken(src, p) ==
    LET c == Current(src, p)
        n == NextChar(src, p)
    IN  IF ~HasMore(src, p) THEN TokenResult(createToken(p, "EOF", <<>>), p)
        ELSE IF IsBlank(c) THEN nextToken(src, Advance(src, p))
        ELSE IF c = "\n"
        THEN TokenResult(createToken(p, "NEWLINE", <<"\n">>), Advance(src, p))
        ELSE IF c = "|" /\ n = "+"
        THEN TokenResult(Token("MULTILINE_START", <<"|", "+">>, p.line, p.column, p.index),
                         AdvanceTo(src, p, p.index + 2))
        ELSE IF c \in {"|", "<"}
        THEN TokenResult(Token("MULTILINE_START", <<c>>, p.line, p.column, p.index),
                         Advance(src, p))
        ELSE IF c = ":"
        THEN TokenResult(createToken(p, "COLON", <<":">>), Advance(src, p))
        ELSE IF c = "/" /\ n = "/" THEN readComment(src, p)
        ELSE IF c = "/" /\ n = "!" THEN readNotice(src, p)
        ELSE IF c = "/" /\ n = "=" /\ Peek(src, p, 2) = ">" THEN readTodoComment(src, p)
        ELSE IF c = "@" /\ n = "-" THEN readNamespaceDeclaration(src, p)
        ELSE IF c = "@" /\ n = "/" THEN readSectionDeclaration(src, p)
        ELSE IF c = "-" /\ n = " " THEN readListItem(src, p)
        ELSE IF c = "\"" THEN readQuotedKey(src, p)
        ELSE IF c = "$" /\ n = "_" THEN readEnvVar(src, p)
        ELSE IF c = Backquote THEN readRawContent(src, p)
        ELSE IF IsKeyStart(c) THEN readIdentifier(src, p)
        ELSE IF IsBlank(c) THEN readValue(src, p)
        ELSE TokenError("Unexpected character: " \o c, p)

\* Tokenizer.tokenize: the tokens up to and including EOF, or the error
RECURSIVE tokenizeFrom(_, _, _)
tokenizeFrom(src, p, acc) ==
    With(nextToken(src, p), LAMBDA r :
        IF ~r.ok THEN [ok |-> FALSE, tokens |-> acc, error |-> r]
        ELSE IF r.token.type = "EOF"
        THEN [ok |-> TRUE, tokens |-> Append(acc, r.token), error |-> r]
        ELSE tokenizeFrom(src, r.position, Append(acc, r.token)))
\* the loop written `while (token.type !== EOF) tokens.push(token)`: the EOF
\* token is read and not pushed
tokenizeBeforeEof(src) ==
    With(tokenizeFrom(src, StartPosition, <<>>), LAMBDA r :
        IF r.ok THEN [r EXCEPT !.tokens = SubSeq(r.tokens, 1, Len(r.tokens) - 1)] ELSE r)
tokenize(src) == tokenizeFrom(src, StartPosition, <<>>)

-----------------------------------------------------------------------------
(* Lexer (lexer/Lexer.ts, the processTokens implementation)                *)

\* Lexer.calculateIndent: Math.floor(spaces / 2)
calculateIndent(spaces) == spaces \div 2

\* indentStack[indentStack.length - 1] is undefined on an empty stack, and
\* every comparison of a number with undefined is false
HasTop(stack) == Len(stack) > 0
Top(stack) == stack[Len(stack)]
AboveTop(indent, stack) == HasTop(stack) /\ indent > Top(stack)
BelowTop(indent, stack) == HasTop(stack) /\ indent < Top(stack)

\* while (currentIndent < top) { indentStack.pop(); tokens.push(DEDENT) }
RECURSIVE PopTo(_, _)
PopTo(stack, indent) ==
    IF BelowTop(indent, stack) THEN PopTo(SubSeq(stack, 1, Len(stack) - 1), indent)
    ELSE stack

\* the start of the line a token is on
LineStart(token) ==
    [line |-> token.position.line, column |-> 1,
     index |-> token.position.index - token.position.column + 1]

IndentToken(token, indent) ==
    [type |-> "INDENT", value |-> Repeat(2 * indent, " "), position |-> LineStart(token)]
DedentToken(position) ==
    [type |-> "DEDENT", value |-> <<>>, position |-> position]

\* processTokens, lines 55-91: the line transition in front of a token
\* (inMultilineMode is false whenever the loop reaches it: the
\* MULTILINE_START case sets and clears it within one iteration)
IsNewLine(token, lastLine) == token.position.line > lastLine
LineIndent(token) == calculateIndent(token.position.column - 1)
StackAfterLine(stack, token) ==
    LET indent == LineIndent(token)
    IN  IF AboveTop(indent, stack) THEN Append(stack, indent)
        ELSE IF BelowTop(indent, stack) THEN PopTo(stack, indent)
        ELSE stack
IndentationTokens(stack, token) ==
    LET indent == LineIndent(token)
    IN  IF AboveTop(indent, stack) THEN <<IndentToken(token, indent)>>
        ELSE IF BelowTop(indent, stack)
        THEN Repeat(Len(stack) - Len(PopTo(stack, indent)), DedentToken(LineStart(token)))
        ELSE <<>>

\* processTokens, lines 112-158: the look-ahead over the body of a multiline
\* block, from raw[j + 1] on; the index it stops at, the tokens it emits and
\* the end position it tracks
RECURSIVE MultilineBody(_, _, _, _, _, _)
MultilineBody(raw, j, lastLine, indent, out, endPosition) ==
    IF j >= Len(raw) THEN [j |-> j, out |-> out, endPosition |-> endPosition]
    ELSE LET nextTok == raw[j + 1]
         IN  IF /\ nextTok.position.line > lastLine
                /\ calculateIndent(nextTok.position.column - 1) < indent
             THEN [j |-> j, out |-> out, endPosition |-> endPosition]
             ELSE IF nextTok.type \in {"KEY", "LIST_ITEM", "SECTION_DECLARATION",
                                       "NAMESPACE_DECLARATION"}
             THEN [j |-> j, out |-> out, endPosition |-> endPosition]
             ELSE IF nextTok.type \in {"VALUE", "KEY", "COLON"}
             THEN MultilineBody(raw, j + 1, lastLine, indent,
                      Append(out, [nextTok EXCEPT !.type = "MULTILINE_STRING"]),
                      [line |-> nextTok.position.line,
                       column |-> nextTok.position.column + Len(nextTok.value),
                       index |-> nextTok.position.index + Len(nextTok.value)])
             ELSE IF nextTok.type = "NEWLINE"
             THEN MultilineBody(raw, j + 1, lastLine, indent, Append(out, nextTok), endPosition)
             ELSE MultilineBody(raw, j + 1, lastLine, indent, out, endPosition)

\* processTokens, case MULTILINE_START (lines 95-167)
MultilineCase(raw, at, lastLine, indent) ==
    LET token == raw[at + 1]
        hasNewline == at + 1 < Len(raw) /\ raw[at + 2].type = "NEWLINE"
        j0 == IF hasNewline THEN at + 2 ELSE at + 1
        first == IF hasNewline THEN <<token, raw[at + 2]>> ELSE <<token>>
        body == MultilineBody(raw, j0, lastLine, indent, first, token.position)
    IN  [out |-> Append(body.out, [type |-> "MULTILINE_END", value |-> <<>>,
                                   position |-> body.endPosition]),
         next |-> body.j]

\* processTokens, case LIST_ITEM (lines 173-198)
ListItemCase(raw, at) ==
    LET token == raw[at + 1]
    IN  IF at + 1 < Len(raw) /\ raw[at + 2].type = "KEY"
        THEN [out |-> <<token>>, next |-> at + 1]
        ELSE IF at + 1 < Len(raw) /\ raw[at + 2].type # "NEWLINE"
        THEN [out |-> <<token, [raw[at + 2] EXCEPT !.type = "VALUE"]>>, next |-> at + 2]
        ELSE [out |-> <<token>>, next |-> at + 1]

\* processTokens, the switch on the token type (lines 94-204)
TokenCase(raw, at, lastLine, indent) ==
    LET token == raw[at + 1]
    IN  IF token.type = "MULTILINE_START" THEN MultilineCase(raw, at, lastLine, indent)
        ELSE IF token.type = "LIST_ITEM" THEN ListItemCase(raw, at)
        ELSE [out |-> <<token>>, next |-> at + 1]

\* processTokens, lines 210-219: the DEDENT tokens added at the end of the file
EofDedents(raw, stack, lastLine) ==
    Repeat(IF Len(stack) > 1 THEN Len(stack) - 1 ELSE 0,
           DedentToken([line |-> lastLine + 1, column |-> 1,
                        index |-> raw[Len(raw)].position.index + 1]))
StackAtEof(stack) == IF Len(stack) > 1 THEN SubSeq(stack, 1, 1) ELSE stack

\* processTokens: the state of the loop, and one iteration of
\* `while (i < rawTokens.length)` (lines 51-207)
LexerStart ==
    [i |-> 0, currentIndent |-> 0, lastLineNumber |-> 1, indentStack |-> <<0>>,
     tokens |-> <<>>]
LexerIteration(raw, st) ==
    LET token == raw[st.i + 1]
        newLine == IsNewLine(token, st.lastLineNumber)
        lastLine == IF newLine THEN token.position.line ELSE st.lastLineNumber
        indent == IF newLine THEN LineIndent(token) ELSE st.currentIndent
        stack == IF newLine THEN StackAfterLine(st.indentStack, token) ELSE st.indentStack
        pre == IF newLine THEN IndentationTokens(st.indentStack, token) ELSE <<>>
        case == TokenCase(raw, st.i, lastLine, indent)
    IN  [i |-> case.next, currentIndent |-> indent, lastLineNumber |-> lastLine,
         indentStack |-> stack, tokens |-> st.tokens \o pre \o case.out]
\* processTokens: after the loop (lines 209-219)
LexerFinish(raw, st) ==
    [st EXCEPT !.tokens = st.tokens \o EofDedents(raw, st.indentStack, st.lastLineNumber),
               !.indentStack = StackAtEof(st.indentStack)]

\* Lexer.processTokens as a whole, from the state st on, and Lexer.lex on the
\* tokens of the Tokenizer: the list it returns
RECURSIVE processTokens(_, _)
processTokens(raw, st) ==
    IF st.i >= Len(raw) THEN LexerFinish(raw, st)
    ELSE processTokens(raw, LexerIteration(raw, st))
lex(raw) == processTokens(raw, LexerStart).tokens

\* Lexer.ts holds a second Lexer, whose lex() calls processIndentation
\* (lines 276-359) in place of processTokens.
\* Lexer.calculateIndent of that class: Math.max(0, Math.floor((column - 1) / 2))
calculateIndentOfColumn(column) ==
    IF (column - 1) \div 2 > 0 THEN (column - 1) \div 2 ELSE 0

\* throw new Error(`Invalid indentation at line ${line}`): no ColumnError
InvalidIndentation(line) ==
    [ok |-> FALSE,
     error |-> [name |-> "Error", message |-> <<"Invalid indentation at line ", line>>]]

\* processIndentation: the loop from rawTokens[at] on, and the DEDENT tokens
\* of the end of the file after it
RECURSIVE processIndentation(_, _, _, _)
processIndentation(raw, at, stack, out) ==
    IF at >= Len(raw)
    THEN [ok |-> TRUE,
          tokens |-> out \o Repeat(Len(stack) - 1, DedentToken(raw[Len(raw)].position)),
          indentStack |-> SubSeq(stack, 1, 1)]
    ELSE IF /\ raw[at + 1].type = "NEWLINE"
            /\ at + 1 < Len(raw)
            /\ raw[at + 2].position.line > raw[at + 1].position.line
    THEN With(calculateIndentOfColumn(raw[at + 2].position.column), LAMBDA indent :
             IF indent > Top(stack)
             THEN processIndentation(raw, at + 1, Append(stack, indent),
                      out \o <<raw[at + 1],
                               [type |-> "INDENT", value |-> Repeat(2 * indent, " "),
                                position |-> raw[at + 2].position]>>)
             ELSE IF indent < Top(stack)
             THEN With(PopTo(stack, indent), LAMBDA popped :
                      IF indent # Top(popped)
                      THEN InvalidIndentation(raw[at + 2].position.line)
                      ELSE processIndentation(raw, at + 1, popped,
                               out \o <<raw[at + 1]>>
                                   \o Repeat(Len(stack) - Len(popped),
                                             DedentToken(raw[at + 2].position))))
             ELSE processIndentation(raw, at + 1, stack, Append(out, raw[at + 1])))
    ELSE processIndentation(raw, at + 1, stack, Append(out, raw[at + 1]))

-----------------------------------------------------------------------------
(* Values and scalar types (utils/types.ts)                                *)

\* JavaScript values: every value is a record tagged by its field js
JsUndefined == [js |-> "undefined"]
JsNull == [js |-> "null"]
JsString(s) == [js |-> "string", s |-> s]
JsBoolean(b) == [js |-> "boolean", b |-> b]
JsNumber(n) == [js |-> "number", n |-> n]
JsDate(s) == [js |-> "Date", of |-> s]
JsArray(items) == [js |-> "array", items |-> items]
JsObject(fields) == [js |-> "object", fields |-> fields]
EmptyObject == JsObject(<<>>)
\* obj[key] = value
Put(obj, key, value) ==
    JsObject([k \in DOMAIN obj.fields \cup {key} |->
                 IF k = key THEN value ELSE obj.fields[k]])

AllDigits(s) == Len(s) > 0 /\ \A n \in 1..Len(s) : s[n] \in Digits
Unsigned(s) == IF Len(s) > 0 /\ s[1] = "-" THEN Tail(s) ELSE s
\* /^-?\d+$/
IsIntText(s) == AllDigits(Unsigned(s))
\* /^-?\d+\.\d+$/
IsFloatText(s) ==
    LET u == Unsigned(s)
    IN  \E d \in 1..Len(u) :
            /\ u[d] = "."
            /\ AllDigits(SubSeq(u, 1, d - 1))
            /\ AllDigits(SubSeq(u, d + 1, Len(u)))
\* a text of the shape of `shape`, where "9" stands for any digit
Shaped(s, shape) ==
    /\ Len(s) = Len(shape)
    /\ \A n \in 1..Len(s) : IF shape[n] = "9" THEN s[n] \in Digits ELSE s[n] = shape[n]
\* /^\d{4}-\d{2}-\d{2}$/
IsDateText(s) == Shaped(s, <<"9","9","9","9","-","9","9","-","9","9">>)
\* /^\d{2}:\d{2}(:\d{2})?$/
IsTimeText(s) ==
    \/ Shaped(s, <<"9","9",":","9","9">>)
    \/ Shaped(s, <<"9","9",":","9","9",":","9","9">>)
\* /^\d{4}-\d{2}-\d{2}T\d{2}:\d{2}(:\d{2})?(\.\d+)?(Z|[+-]\d{2}:\d{2})?$/
IsZoneText(s) ==
    \/ s = <<>>
    \/ s = <<"Z">>
    \/ Shaped(s, <<"+","9","9",":","9","9">>)
    \/ Shaped(s, <<"-","9","9",":","9","9">>)
IsFractionText(s) == s = <<>> \/ (Len(s) > 1 /\ s[1] = "." /\ AllDigits(Tail(s)))
IsDateTimeText(s) ==
    /\ Len(s) >= 16
    /\ IsDateText(SubSeq(s, 1, 10))
    /\ s[11] = "T"
    /\ \E a \in 16..Len(s), b \in 16..Len(s) :
          /\ a <= b
          /\ IsTimeText(SubSeq(s, 12, a))
          /\ IsFractionText(SubSeq(s, a + 1, b))
          /\ IsZoneText(SubSeq(s, b + 1, Len(s)))
\* /^\d+[hmsd](\d+[hmsd])*$/
IsDurationText(s) ==
    /\ Len(s) > 1
    /\ s[1] \in Digits
    /\ s[Len(s)] \in {"h", "m", "s", "d"}
    /\ \A n \in 1..Len(s) : s[n] \in Digits \cup {"h", "m", "s", "d"}
    /\ \A n \in 2..Len(s) : s[n] \in {"h", "m", "s", "d"} => s[n - 1] \in Digits

\* detectType; the result is the value of the DataType member
detectType(value) ==
    IF value \in {<<"n","u","l","l">>, <<"?">>, <<>>} THEN "NULL"
    ELSE IF value \in {<<"t","r","u","e">>, <<"f","a","l","s","e">>, <<"!","!">>, <<"!">>}
    THEN "BOOL"
    ELSE IF IsIntText(value) THEN "INT"
    ELSE IF IsFloatText(value) THEN "FLOAT"
    ELSE IF IsDateText(value) THEN "DATE"
    ELSE IF IsTimeText(value) THEN "TIME"
    ELSE IF IsDateTimeText(value) THEN "DATETIME"
    ELSE IF IsDurationText(value) THEN "DURATION"
    ELSE "STRING"

DigitValue(c) == CHOOSE n \in 0..9 : c = <<"0","1","2","3","4","5","6","7","8","9">>[n + 1]
RECURSIVE Decimal(_)
Decimal(s) == IF s = <<>> THEN 0 ELSE 10 * Decimal(SubSeq(s, 1, Len(s) - 1)) + DigitValue(s[Len(s)])
\* the longest prefix of digits
DigitPrefix(s) ==
    LET stop == CHOOSE n \in 0..Len(s) :
                    /\ \A k \in 1..n : s[k] \in Digits
                    /\ (n = Len(s) \/ s[n + 1] \notin Digits)
    IN  SubSeq(s, 1, stop)
RECURSIVE DropTrailingZeros(_)
DropTrailingZeros(s) ==
    IF s # <<>> /\ s[Len(s)] = "0" THEN DropTrailingZeros(SubSeq(s, 1, Len(s) - 1)) ELSE s
NaN == [js |-> "number", n |-> [nan |-> TRUE]]
\* a number: its sign, its integer part and the digits of its fraction
Number(negative, int, fraction) ==
    JsNumber([negative |-> negative /\ (int # 0 \/ fraction # <<>>), int |-> int,
              fraction |-> fraction])
\* parseInt(value, 10): an optional sign, then the leading digits
Signed(t) == Len(t) > 0 /\ t[1] \in {"-", "+"}
Negative(t) == Len(t) > 0 /\ t[1] = "-"
parseInt(value) ==
    With(Trim(value), LAMBDA t :
        With(DigitPrefix(IF Signed(t) THEN Tail(t) ELSE t), LAMBDA digits :
            IF digits = <<>> THEN NaN
            ELSE Number(Negative(t), Decimal(digits), <<>>)))
\* parseFloat(value): an optional sign, the leading digits and a fraction
\* (exponents and Infinity are not modelled)
FractionOf(rest) ==
    IF Len(rest) > 0 /\ rest[1] = "." THEN DigitPrefix(Tail(rest)) ELSE <<>>
parseFloat(value) ==
    With(Trim(value), LAMBDA t :
        With(IF Signed(t) THEN Tail(t) ELSE t, LAMBDA u :
            With(DigitPrefix(u), LAMBDA int :
                With(FractionOf(Substring(u, Len(int))), LAMBDA fraction :
                    IF int = <<>> /\ fraction = <<>> THEN NaN
                    ELSE Number(Negative(t), Decimal(int), DropTrailingZeros(fraction))))))

\* convertValue
convertValue(value, type) ==
    IF type = "NULL" THEN JsNull
    ELSE IF type = "BOOL"
    THEN IF value \in {<<"t","r","u","e">>, <<"!","!">>} THEN JsBoolean(TRUE)
         ELSE IF value \in {<<"f","a","l","s","e">>, <<"!">>} THEN JsBoolean(FALSE)
         ELSE JsBoolean(value # <<>>)
    ELSE IF type = "INT" THEN parseInt(value)
    ELSE IF type \in {"FLOAT", "NUMBER"} THEN parseFloat(value)
    ELSE IF type \in {"DATE", "TIME", "DATETIME"} THEN JsDate(value)
    ELSE JsString(value)

\* DataType[typeStr as keyof typeof DataType]: DataType is a string enum, so
\* the lookup goes by member name and gives undefined for any other text
DataTypeMembers ==
    {"STRING", "NUMBER", "BOOLEAN", "NULL", "DATE", "TIME", "DATETIME", "DURATION",
     "INT", "FLOAT", "ARRAY", "OBJECT"}
DataTypeOf(name) ==
    IF name = "BOOLEAN" THEN "BOOL"
    ELSE IF name \in DataTypeMembers THEN name
    ELSE "undefined"

-----------------------------------------------------------------------------
(* Syntax tree (parser/ast.ts) and Parser (parser/parser.ts)               *)

createDocument(position, children, notices, namespace, sections) ==
    [type |-> "Document", position |-> position, children |-> children,
     notices |-> notices, namespace |-> namespace, sections |-> sections]
\* children is optional: JsUndefined, or the array of the nested nodes
createKeyValue(position, key, value, children) ==
    [type |-> "KeyValue", position |-> position, key |-> key, value |-> value,
     children |-> children]
createValue(position, value, valueType) ==
    [type |-> "Value", position |-> position, value |-> value, valueType |-> valueType]
createListItem(position, value) ==
    [type |-> "ListItem", position |-> position, value |-> value]
createMultilineString(position, content, format) ==
    [type |-> "MultilineString", position |-> position, content |-> content,
     format |-> format]
createComment(position, content) ==
    [type |-> "Comment", position |-> position, content |-> content]
createTodoComment(position, content) ==
    [type |-> "TodoComment", position |-> position, content |-> content]
createNotice(position, content) ==
    [type |-> "Notice", position |-> position, content |-> content]
createNamespaceDeclaration(position, name) ==
    [type |-> "NamespaceDeclaration", position |-> position, name |-> name]
createSectionDeclaration(position, name, children) ==
    [type |-> "SectionDeclaration", position |-> position, name |-> name,
     children |-> children]
createEnvVar(position, name, defaultValue) ==
    [type |-> "EnvVar", position |-> position, name |-> name,
     defaultValue |-> defaultValue]
createRawContent(position, content) ==
    [type |-> "RawContent", position |-> position, content |-> content]

\* the result of a parsing method: the node built and the cursor after it, or
\* the error thrown
Parsed(node, cur) == [ok |-> TRUE, node |-> node, cur |-> cur]
Thrown(code, message, position) ==
    [ok |-> FALSE, error |-> [code |-> code, message |-> message, position |-> position]]

\* Parser.isAtEnd, Parser.check
isAtEnd(toks, cur) == cur >= Len(toks) \/ toks[cur + 1].type = "EOF"
check(toks, cur, type) == ~isAtEnd(toks, cur) /\ toks[cur + 1].type = type

\* throw new ParseError(message, this.currentToken.position); reading the
\* position of a token past the end of the list is a TypeError
ParseError(toks, cur, message) ==
    IF cur < Len(toks) THEN Thrown("PARSE_ERROR", message, toks[cur + 1].position)
    ELSE Thrown("TypeError", "Cannot read properties of undefined", [line |-> 0, column |-> 0, index |-> 0])

\* while (this.check(type)) this.advance(): the cursor after the loop
RECURSIVE SkipAll(_, _, _)
SkipAll(toks, cur, type) ==
    IF check(toks, cur, type) THEN SkipAll(toks, cur + 1, type) ELSE cur

\* the valueType the parser derives from the detected type
ValueTypeOf(detected) ==
    IF detected = "NULL" THEN "null"
    ELSE IF detected = "BOOL" THEN "boolean"
    ELSE IF detected \in {"INT", "FLOAT"} THEN "number"
    ELSE IF detected \in {"DATE", "TIME", "DATETIME"} THEN "date"
    ELSE "string"

\* a scalar whose type is detected from its text
DetectedValue(position, text) ==
    With(detectType(text), LAMBDA type :
        createValue(position, convertValue(text, type), ValueTypeOf(type)))

\* Parser.parseTypeAnnotationIfPresent: value.match(/^\s*\{([A-Z]+)\}/); the
\* name between the braces, or <<>> when the value has no annotation
AnnotationName(value) ==
    LET open == ScanWhile(value, 0, IsSpace)
        close == ScanWhile(value, open + 1, LAMBDA c : c \in UpperCase)
    IN  IF CharAt(value, open) = "{" /\ close > open + 1 /\ CharAt(value, close) = "}"
        THEN Slice(value, open + 1, close)
        ELSE <<>>

\* Parser.parseKeyValue, lines 267-319: the Value of a VALUE token
ScalarValue(token) ==
    With(AnnotationName(token.value), LAMBDA name :
        With(IF name # <<>> THEN Trim(Substring(token.value, Len(name) + 2)) ELSE token.value,
             LAMBDA actualValue :
                 With(detectType(actualValue), LAMBDA detected :
                     createValue(token.position,
                                 convertValue(actualValue,
                                              IF name # <<>> THEN DataTypeOf(Str(name))
                                              ELSE detected),
                                 ValueTypeOf(detected)))))

\* String.prototype.split("||")
RECURSIVE SplitBars(_, _)
SplitBars(s, part) ==
    IF s = <<>> THEN <<part>>
    ELSE IF Len(s) >= 2 /\ s[1] = "|" /\ s[2] = "|"
    THEN <<part>> \o SplitBars(SubSeq(s, 3, Len(s)), <<>>)
    ELSE SplitBars(Tail(s), Append(part, s[1]))

\* Parser.parseKeyValue, lines 364-373: the Value of an ENV_VAR token
EnvVarValue(token) ==
    LET parts == SplitBars(token.value, <<>>)
        name == Substring(Trim(parts[1]), 2)
        defaultValue == IF Len(parts) > 1 THEN JsString(Trim(parts[2])) ELSE JsUndefined
    IN  createValue(token.position, createEnvVar(token.position, name, defaultValue),
                    "complex")

\* Parser.parseKeyValue, lines 333-341: the content of the MULTILINE_STRING run
RECURSIVE MultilineContent(_, _, _)
MultilineContent(toks, cur, content) ==
    IF check(toks, cur, "MULTILINE_STRING")
    THEN LET more == content \o toks[cur + 1].value
         IN  MultilineContent(toks, cur + 1,
                 IF check(toks, cur + 1, "MULTILINE_STRING") THEN Append(more, "\n") ELSE more)
    ELSE [content |-> content, cur |-> cur]

\* Parser.parseKeyValue, lines 320-358: the Value of a multiline block
MultilineValue(toks, cur) ==
    LET start == toks[cur + 1]
        c1 == IF check(toks, cur + 1, "NEWLINE") THEN cur + 2 ELSE cur + 1
        body == MultilineContent(toks, c1, <<>>)
        c2 == SkipAll(toks, body.cur, "NEWLINE")
        c3 == IF check(toks, c2, "MULTILINE_END") THEN c2 + 1 ELSE c2
    IN  Parsed(createValue(start.position,
                           createMultilineString(start.position, body.content, start.value),
                           "complex"), c3)

\* Parser.parseComment, parseNotice, parseNamespaceDeclaration, parseRawContent
parseComment(toks, cur) ==
    LET token == toks[cur + 1]
    IN  IF check(toks, cur, "COMMENT")
        THEN Parsed(createComment(token.position, Trim(Substring(token.value, 2))), cur + 1)
        ELSE IF check(toks, cur, "TODO_COMMENT")
        THEN Parsed(createTodoComment(token.position, Trim(Substring(token.value, 3))), cur + 1)
        ELSE ParseError(toks, cur, "Expected comment")
parseNotice(toks, cur) ==
    IF check(toks, cur, "NOTICE")
    THEN Parsed(createNotice(toks[cur + 1].position, Trim(Substring(toks[cur + 1].value, 2))),
                cur + 1)
    ELSE ParseError(toks, cur, "Expected notice")
parseNamespaceDeclaration(toks, cur) ==
    IF check(toks, cur, "NAMESPACE_DECLARATION")
    THEN Parsed(createNamespaceDeclaration(toks[cur + 1].position,
                                           Trim(Substring(toks[cur + 1].value, 2))), cur + 1)
    ELSE ParseError(toks, cur, "Expected namespace declaration")
parseRawContent(toks, cur) ==
    IF check(toks, cur, "RAW_CONTENT")
    THEN Parsed(createRawContent(toks[cur + 1].position, toks[cur + 1].value), cur + 1)
    ELSE ParseError(toks, cur, "Expected raw content")

RECURSIVE parseStatement(_, _)
RECURSIVE parseKeyValue(_, _)
RECURSIVE parseListItem(_, _)
RECURSIVE parseSectionDeclaration(_, _)
RECURSIVE BlockChildren(_, _, _)
RECURSIVE SectionChildren(_, _, _)

\* `if (node) children.push(node)`
Pushed(children, node) == IF node = JsNull THEN children ELSE Append(children, node)

\* `while (!this.check(DEDENT) && !this.isAtEnd())` of parseKeyValue and
\* parseListItem: the children of a nested block
BlockChildren(toks, cur, children) ==
    IF check(toks, cur, "DEDENT") \/ isAtEnd(toks, cur)
    THEN [ok |-> TRUE, children |-> children, cur |-> cur]
    ELSE Then(parseStatement(toks, cur), LAMBDA child :
             BlockChildren(toks, child.cur, Pushed(children, child.node)))

\* parseKeyValue and parseListItem: INDENT, the children, DEDENT if present
NestedBlock(toks, cur) ==
    Then(BlockChildren(toks, cur + 1, <<>>), LAMBDA block :
        [block EXCEPT !.cur = IF check(toks, block.cur, "DEDENT")
                              THEN block.cur + 1 ELSE block.cur])

\* Parser.parseStatement
parseStatement(toks, cur) ==
    IF check(toks, cur, "KEY") THEN parseKeyValue(toks, cur)
    ELSE IF check(toks, cur, "LIST_ITEM") THEN parseListItem(toks, cur)
    ELSE IF check(toks, cur, "COMMENT") \/ check(toks, cur, "TODO_COMMENT")
    THEN parseComment(toks, cur)
    ELSE IF check(toks, cur, "NOTICE") THEN parseNotice(toks, cur)
    ELSE IF check(toks, cur, "NAMESPACE_DECLARATION") THEN parseNamespaceDeclaration(toks, cur)
    ELSE IF check(toks, cur, "SECTION_DECLARATION") THEN parseSectionDeclaration(toks, cur)
    ELSE IF check(toks, cur, "RAW_CONTENT") THEN parseRawContent(toks, cur)
    ELSE IF check(toks, cur, "INDENT") \/ check(toks, cur, "DEDENT") \/ check(toks, cur, "NEWLINE")
    THEN parseStatement(toks, cur + 1)
    ELSE IF check(toks, cur, "EOF") THEN Parsed(JsNull, cur)
    ELSE ParseError(toks, cur, "Unexpected token")

\* Parser.parseKeyValue, lines 264-380: the value after the colon; c is the
\* cursor after the colon and the newlines that follow it
KeyValueValue(toks, c, keyToken) ==
    IF check(toks, c, "VALUE") THEN Parsed(ScalarValue(toks[c + 1]), c + 1)
    ELSE IF check(toks, c, "MULTILINE_START") THEN MultilineValue(toks, c)
    ELSE IF check(toks, c, "RAW_CONTENT")
    THEN Parsed(createValue(toks[c + 1].position,
                            createRawContent(toks[c + 1].position, toks[c + 1].value),
                            "complex"), c + 1)
    ELSE IF check(toks, c, "ENV_VAR") THEN Parsed(EnvVarValue(toks[c + 1]), c + 1)
    ELSE IF check(toks, c, "INDENT")
    THEN Parsed(createValue(keyToken.position, EmptyObject, "complex"), c)
    ELSE Parsed(JsNull, c)

\* parseKeyValue and parseListItem: the KeyValue of keyToken and value, with
\* the nested block when the cursor c is at an INDENT
KeyValueAt(toks, c, keyToken, value, after) ==
    IF check(toks, c, "INDENT")
    THEN Then(NestedBlock(toks, c), LAMBDA block :
             Parsed(createKeyValue(keyToken.position, keyToken.value, value,
                                   JsArray(block.children)), block.cur))
    ELSE Parsed(createKeyValue(keyToken.position, keyToken.value, value, JsUndefined), after)

\* Parser.parseKeyValue
parseKeyValue(toks, cur) ==
    IF ~check(toks, cur, "KEY") THEN ParseError(toks, cur, "Expected key")
    ELSE IF ~check(toks, cur + 1, "COLON") THEN ParseError(toks, cur + 1, "Expected ':' after key")
    ELSE With(KeyValueValue(toks, SkipAll(toks, cur + 2, "NEWLINE"), toks[cur + 1]),
              LAMBDA value :
                  KeyValueAt(toks, value.cur, toks[cur + 1], value.node,
                             SkipAll(toks, value.cur, "NEWLINE")))

\* Parser.parseListItem, lines 430-505: `- key:` with an optional VALUE; c is
\* the cursor at the key
ListItemKeyValue(toks, c, itemToken) ==
    With(IF check(toks, c + 2, "VALUE")
         THEN Parsed(DetectedValue(toks[c + 3].position, toks[c + 3].value), c + 3)
         ELSE Parsed(JsNull, c + 2),
         LAMBDA value :
             Then(KeyValueAt(toks, value.cur, toks[c + 1], value.node, value.cur),
                  LAMBDA keyValue :
                      Parsed(createListItem(itemToken.position, keyValue.node), keyValue.cur)))

\* Parser.parseListItem, lines 506-528: a scalar item, or an empty one
ListItemScalar(toks, c, itemToken) ==
    IF check(toks, c, "KEY") \/ check(toks, c, "VALUE")
    THEN Parsed(createListItem(itemToken.position,
                    DetectedValue(toks[c + 1].position, toks[c + 1].value)), c + 1)
    ELSE Parsed(createListItem(itemToken.position,
                    createValue(itemToken.position, JsString(<<>>), "string")), c)

\* Parser.parseListItem
parseListItem(toks, cur) ==
    IF ~check(toks, cur, "LIST_ITEM") THEN ParseError(toks, cur, "Expected list item")
    ELSE With(SkipAll(toks, cur + 1, "NEWLINE"), LAMBDA c :
             IF check(toks, c, "KEY") /\ check(toks, c + 1, "COLON")
             THEN ListItemKeyValue(toks, c, toks[cur + 1])
             ELSE ListItemScalar(toks, c, toks[cur + 1]))

\* parseSectionDeclaration, lines 600-610: the content of a section
SectionChildren(toks, cur, children) ==
    IF isAtEnd(toks, cur) \/ check(toks, cur, "SECTION_DECLARATION")
    THEN [ok |-> TRUE, children |-> children, cur |-> cur]
    ELSE IF check(toks, cur, "NEWLINE") THEN SectionChildren(toks, cur + 1, children)
    ELSE Then(parseStatement(toks, cur), LAMBDA child :
             SectionChildren(toks, child.cur, Pushed(children, child.node)))

\* Parser.parseSectionDeclaration
parseSectionDeclaration(toks, cur) ==
    IF ~check(toks, cur, "SECTION_DECLARATION")
    THEN ParseError(toks, cur, "Expected section declaration")
    ELSE Then(SectionChildren(toks, IF check(toks, cur + 1, "NEWLINE") THEN cur + 2 ELSE cur + 1,
                              <<>>),
              LAMBDA content :
                  Parsed(createSectionDeclaration(toks[cur + 1].position,
                                                  Trim(Substring(toks[cur + 1].value, 2)),
                                                  content.children),
                         content.cur))

\* Parser.parse, lines 147-150: the notices at the head of the list
RECURSIVE LeadingNotices(_, _, _)
LeadingNotices(toks, cur, notices) ==
    IF check(toks, cur, "NOTICE")
    THEN LeadingNotices(toks, cur + 1, Append(notices, parseNotice(toks, cur).node))
    ELSE [ok |-> TRUE, notices |-> notices, cur |-> cur]

\* Parser.parse, lines 157-160: the sections at the head of the list
RECURSIVE LeadingSections(_, _, _)
LeadingSections(toks, cur, sections) ==
    IF check(toks, cur, "SECTION_DECLARATION")
    THEN Then(parseSectionDeclaration(toks, cur), LAMBDA section :
             LeadingSections(toks, section.cur, Append(sections, section.node)))
    ELSE [ok |-> TRUE, sections |-> sections, cur |-> cur]

\* Parser.parse, lines 164-180: the rest of the document
RECURSIVE DocumentChildren(_, _, _)
DocumentChildren(toks, cur, nodes) ==
    IF isAtEnd(toks, cur) THEN [ok |-> TRUE, children |-> nodes, cur |-> cur]
    ELSE IF check(toks, cur, "NEWLINE") THEN DocumentChildren(toks, cur + 1, nodes)
    ELSE Then(IF check(toks, cur, "COMMENT") \/ check(toks, cur, "TODO_COMMENT")
              THEN parseComment(toks, cur)
              ELSE parseStatement(toks, cur),
              LAMBDA node : DocumentChildren(toks, node.cur, Pushed(nodes, node.node)))

\* the loop of lines 164-180 with the `this.advance()` of its NEWLINE branch
\* left out
DocumentStepWithoutAdvance(toks, cur) ==
    IF check(toks, cur, "NEWLINE") THEN Parsed(JsNull, cur)
    ELSE IF check(toks, cur, "COMMENT") \/ check(toks, cur, "TODO_COMMENT")
    THEN parseComment(toks, cur)
    ELSE parseStatement(toks, cur)

\* Parser.parse, lines 164-180: one iteration of `while (!this.isAtEnd())`;
\* the node to push (JsNull for none) and the cursor after it
DocumentStep(toks, cur) ==
    IF check(toks, cur, "NEWLINE") THEN Parsed(JsNull, cur + 1)
    ELSE IF check(toks, cur, "COMMENT") \/ check(toks, cur, "TODO_COMMENT")
    THEN parseComment(toks, cur)
    ELSE parseStatement(toks, cur)

\* lines 152-160 with `if` in place of `else if`: the sections that follow a
\* namespace are collected as well
DocumentHeadWithBoth(toks, cur) ==
    IF check(toks, cur, "NAMESPACE_DECLARATION")
    THEN Then(LeadingSections(toks, cur + 1, <<>>), LAMBDA leading :
             [ok |-> TRUE, namespace |-> parseNamespaceDeclaration(toks, cur).node,
              sections |-> leading.sections, cur |-> leading.cur])
    ELSE Then(LeadingSections(toks, cur, <<>>), LAMBDA leading :
             [ok |-> TRUE, namespace |-> JsUndefined, sections |-> leading.sections,
              cur |-> leading.cur])

\* Parser.parse, lines 152-160: the namespace, or else the leading sections
DocumentHead(toks, cur) ==
    IF check(toks, cur, "NAMESPACE_DECLARATION")
    THEN [ok |-> TRUE, namespace |-> parseNamespaceDeclaration(toks, cur).node,
          sections |-> <<>>, cur |-> cur + 1]
    ELSE Then(LeadingSections(toks, cur, <<>>), LAMBDA leading :
             [ok |-> TRUE, namespace |-> JsUndefined, sections |-> leading.sections,
              cur |-> leading.cur])

\* Parser.parse, lines 140-161: the Document as it stands when the loop over
\* the rest begins (toks ends with EOF, so it holds a token)
DocumentStart(toks) ==
    With(LeadingNotices(toks, 0, <<>>), LAMBDA notices :
        Then(DocumentHead(toks, notices.cur), LAMBDA head :
            Parsed(createDocument(toks[1].position, <<>>, notices.notices,
                                  head.namespace, head.sections), head.cur)))

\* Parser.parse
parse(toks) ==
    IF Len(toks) = 0
    THEN Thrown("TypeError", "Cannot read properties of undefined", [line |-> 0, column |-> 0, index |-> 0])
    ELSE
    With(LeadingNotices(toks, 0, <<>>), LAMBDA notices :
        Then(DocumentHead(toks, notices.cur), LAMBDA head :
            Then(DocumentChildren(toks, head.cur, <<>>), LAMBDA rest :
                Parsed(createDocument(toks[1].position, rest.children, notices.notices,
                                      head.namespace, head.sections), rest.cur))))

-----------------------------------------------------------------------------
(* Interpreter (interpreter/interpreter.ts)                                *)

\* String.prototype.split("\n")
RECURSIVE SplitLines(_, _)
SplitLines(s, line) ==
    IF s = <<>> THEN <<line>>
    ELSE IF s[1] = "\n" THEN <<line>> \o SplitLines(Tail(s), <<>>)
    ELSE SplitLines(Tail(s), Append(line, s[1]))

\* content.replace(/\n\s*/, " "), the pattern without its g flag: only the
\* first newline, with the white space that follows it, becomes one space
RECURSIVE ReplaceFirstBreak(_)
ReplaceFirstBreak(s) ==
    IF s = <<>> THEN <<>>
    ELSE IF s[1] = "\n"
    THEN <<" ">> \o Substring(s, ScanWhile(s, 1, IsSpace))
    ELSE <<s[1]>> \o ReplaceFirstBreak(Tail(s))

\* content.replace(/\n\s*/g, " "): every newline, with the white space that
\* follows it, becomes one space
RECURSIVE ReplaceBreaks(_)
ReplaceBreaks(s) ==
    IF s = <<>> THEN <<>>
    ELSE IF s[1] = "\n"
    THEN <<" ">> \o ReplaceBreaks(Substring(s, ScanWhile(s, 1, IsSpace)))
    ELSE <<s[1]>> \o ReplaceBreaks(Tail(s))

\* line.match(/^(\s*)/)[1].length
LeadingSpace(line) == ScanWhile(line, 0, IsSpace)

Min(set) == CHOOSE n \in set : \A m \in set : n <= m

\* Interpreter.interpretMultilineString
interpretMultilineString(node) ==
    IF node.format = <<"<">> THEN Trim(ReplaceBreaks(node.content))
    ELSE IF node.format = <<"|", "+">>
    THEN LET lines == SplitLines(node.content, <<>>)
             filled == {n \in 1..Len(lines) : Trim(lines[n]) # <<>>}
         IN  IF filled = {} THEN node.content
             ELSE LET minIndent == Min({LeadingSpace(lines[n]) : n \in filled})
                  IN  JoinLines([n \in 1..Len(lines) |->
                                    IF n \in filled THEN Substring(lines[n], minIndent)
                                    ELSE lines[n]])
    ELSE node.content

\* Interpreter.interpretEnvVar; environment is a function from names to values
interpretEnvVar(node, environment) ==
    IF node.name \in DOMAIN environment THEN JsString(environment[node.name])
    ELSE IF node.defaultValue # JsUndefined THEN node.defaultValue
    ELSE JsString(<<>>)

\* Interpreter.interpretValue
interpretValue(node, environment) ==
    IF node.valueType = "complex" /\ "type" \in DOMAIN node.value
    THEN IF node.value.type = "MultilineString"
         THEN JsString(interpretMultilineString(node.value))
         ELSE IF node.value.type = "EnvVar" THEN interpretEnvVar(node.value, environment)
         ELSE IF node.value.type = "RawContent" THEN JsString(node.value.content)
         ELSE node.value
    ELSE node.value

KeyText == <<"k", "e", "y">>
ValueText == <<"v", "a", "l", "u", "e">>

RECURSIVE interpretNode(_, _)
RECURSIVE interpretKeyValue(_, _)
RECURSIVE InterpretChildren(_, _, _, _)
RECURSIVE KeyValuesOf(_, _, _)

\* interpretKeyValue, lines 177-190: the loop over the children; value is the
\* value so far and nested the nestedValue object
InterpretChildren(children, value, nested, environment) ==
    IF children = <<>> THEN [value |-> value, nested |-> nested]
    ELSE IF Head(children).type = "KeyValue"
    THEN With(interpretKeyValue(Head(children), environment), LAMBDA kv :
             InterpretChildren(Tail(children), value, Put(nested, kv.key, kv.value),
                               environment))
    ELSE IF Head(children).type = "ListItem"
    THEN InterpretChildren(Tail(children),
                           JsArray(Append(IF value.js = "array" THEN value.items ELSE <<>>,
                                          interpretNode(Head(children).value, environment))),
                           nested, environment)
    ELSE InterpretChildren(Tail(children), value, nested, environment)

\* Interpreter.interpretKeyValue: the pair {key, value}
interpretKeyValue(node, environment) ==
    With(IF node.value # JsNull THEN interpretValue(node.value, environment) ELSE JsNull,
         LAMBDA value :
             IF node.children # JsUndefined /\ Len(node.children.items) > 0
             THEN With(InterpretChildren(node.children.items, value, EmptyObject, environment),
                       LAMBDA r :
                           [key |-> node.key,
                            value |-> IF DOMAIN r.nested.fields # {} THEN r.nested
                                      ELSE r.value])
             ELSE [key |-> node.key, value |-> value])

\* the object built from the KeyValue nodes among children (interpretDocument
\* and interpretSectionDeclaration)
KeyValuesOf(children, result, environment) ==
    IF children = <<>> THEN result
    ELSE IF Head(children).type = "KeyValue"
    THEN With(interpretKeyValue(Head(children), environment), LAMBDA kv :
             KeyValuesOf(Tail(children), Put(result, kv.key, kv.value), environment))
    ELSE KeyValuesOf(Tail(children), result, environment)

\* Interpreter.interpretSectionDeclaration
interpretSectionDeclaration(node, environment) ==
    KeyValuesOf(node.children, EmptyObject, environment)

\* interpretDocument, lines 139-141: one member per section
RECURSIVE SectionsOf(_, _, _)
SectionsOf(sections, result, environment) ==
    IF sections = <<>> THEN result
    ELSE SectionsOf(Tail(sections),
                    Put(result, Head(sections).name,
                        interpretSectionDeclaration(Head(sections), environment)),
                    environment)

\* Interpreter.interpretDocument
interpretDocument(node, environment) ==
    IF Len(node.sections) > 0 THEN SectionsOf(node.sections, EmptyObject, environment)
    ELSE KeyValuesOf(node.children, EmptyObject, environment)

\* Interpreter.interpretNode; a KeyValue is interpreted to the object
\* {key, value} that interpretKeyValue returns
interpretNode(node, environment) ==
    IF node.type = "Document" THEN interpretDocument(node, environment)
    ELSE IF node.type = "KeyValue"
    THEN With(interpretKeyValue(node, environment), LAMBDA kv :
             JsObject([k \in {KeyText, ValueText} |->
                          IF k = KeyText THEN JsString(kv.key) ELSE kv.value]))
    ELSE IF node.type = "Value" THEN interpretValue(node, environment)
    ELSE IF node.type = "MultilineString" THEN JsString(interpretMultilineString(node))
    ELSE IF node.type = "EnvVar" THEN interpretEnvVar(node, environment)
    ELSE IF node.type = "RawContent" THEN JsString(node.content)
    ELSE IF node.type = "SectionDeclaration" THEN interpretSectionDeclaration(node, environment)
    ELSE [js |-> "InterpretationError"]

\* Interpreter.interpret: the data of the result
interpret(document, environment) == interpretNode(document, environment)

\* Interpreter.collectTodos: the contents of the TodoComment nodes of a list of
\* nodes, of their sections' children and of their KeyValues' children
RECURSIVE collectTodos(_)
collectTodos(nodes) ==
    IF Len(nodes) = 0 THEN <<>>
    ELSE LET node == Head(nodes)
             own == IF node.type = "TodoComment" THEN <<node.content>>
                    ELSE IF node.type = "SectionDeclaration" THEN collectTodos(node.children)
                    ELSE IF node.type = "KeyValue" /\ node.children # JsUndefined
                    THEN collectTodos(node.children.items)
                    ELSE <<>>
         IN  own \o collectTodos(Tail(nodes))

\* Interpreter.interpret: the meta of the result when options.includeMeta is
\* true; a member that is not set is undefined
interpretMeta(document) ==
    LET todos == collectTodos(document.children \o document.sections)
    IN  [notices |-> [n \in 1..Len(document.notices) |-> document.notices[n].content],
         namespace |-> IF document.namespace # JsUndefined
                       THEN JsString(document.namespace.name) ELSE JsUndefined,
         todos |-> IF Len(todos) > 0 THEN JsArray(todos) ELSE JsUndefined]

-----------------------------------------------------------------------------
(* Source texts                                                            *)

MaxLines == 3     \* lines of a source text
MaxIndent == 4    \* leading spaces of a line

\* a source text: its lines joined by "\n", with or without a final "\n"
Indented(texts) == {Repeat(n, " ") \o t : n \in 0..MaxIndent, t \in texts}
LinesOf(texts, most) == UNION {[1..n -> Indented(texts)] : n \in 1..most}
Sources(texts, most) ==
    {JoinLines(ls) : ls \in LinesOf(texts, most)} \cup
    {JoinLines(ls) \o <<"\n">> : ls \in LinesOf(texts, most)}
SourcesOf(texts) == Sources(texts, MaxLines)

\* the lines of the indentation specification: a key that opens a block, a
\* list item, an empty line, a key that opens a multiline block
BlockLines == {<<"k", ":">>, <<"-", " ", "a">>, <<>>, <<"k", ":", " ", "|">>}

\* the lines of lists of objects (tests/interpreter.test.ts, "users")
ListLines ==
    {<<"u", ":">>, <<"-", " ", "n", ":">>, <<"-", " ", "n", ":", " ", "J">>, <<"a", ":">>}

\* the lines of namespaces and sections (docs/language-specifications.md, 9)
SectionLines == {<<"@", "-", " ", "n">>, <<"@", "/", " ", "s">>, <<"k", ":">>, <<>>}

\* environment references (docs/language-specifications.md, 8): without a
\* default, and with each of the defaults
EnvDefaults == {<<"d">>, <<"a", "|", "|", "b">>}
EnvUse == <<"$", "_", "H">>
EnvUseOr(default) == EnvUse \o <<" ", "|", "|", " ">> \o default
EnvReference == <<"h", ":", " ">> \o EnvUse
EnvReferenceOr(default) == <<"h", ":", " ">> \o EnvUseOr(default)
EnvLines == {EnvReference} \cup {EnvReferenceOr(d) : d \in EnvDefaults}
\* the reference as an item of a list
EnvItemOr(default) == JoinLines(<<<<"k", ":">>, <<" ", " ", "-", " ">> \o EnvUseOr(default)>>)
EnvSources == Sources(EnvLines, 1) \cup {EnvItemOr(d) : d \in EnvDefaults}
EnvName == <<"H">>
Environments == {<<>>, [n \in {EnvName} |-> <<"x">>]}

\* the lines given to parseString: the README's nesting, and the scalars of
\* the tokenizer's documentation
NestLines ==
    {<<"s", "e", "t", "t", "i", "n", "g", "s", ":">>,
     <<"d", "e", "b", "u", "g", ":">>,
     <<"n", "a", "m", "e", ":", " ", "J", "o", "h", "n", " ", "D", "o", "e">>,
     <<"a", "g", "e", ":", " ", "3", "0">>}

\* the lines of the head of a file (tests/interpreter.test.ts, "should include
\* metadata when requested"): an empty line, notices, a comment, a to-do, a
\* namespace, a key
MaxHeadLines == 4     \* lines of a source text that has a head
HeadLines ==
    {<<>>, <<"/", "!", " ", "a">>, <<"/", "!", " ", "b">>, <<"/", "/", " ", "c">>,
     <<"/", "=", ">", " ", "t">>, <<"@", "-", " ", "n">>, <<"k", ":">>}
HeadSources ==
    LET lists == UNION {[1..n -> HeadLines] : n \in 1..MaxHeadLines}
    IN  {JoinLines(ls) : ls \in lists} \cup {JoinLines(ls) \o <<"\n">> : ls \in lists}

\* the texts given to the Tokenizer alone: up to MaxPieces pieces, each the
\* beginning or the whole of a lexeme of docs/language-token-definition.md
MaxPieces == 3     \* pieces of a text given to the Tokenizer
Pieces ==
    {<<"a">>, <<":">>, <<" ">>, <<"\n">>, <<"\r", "\n">>, <<"-">>,
     <<"/", "/">>, <<"/", "!">>, <<"/", "=", ">">>, <<"@", "-">>, <<"@", "/">>,
     <<"\"", "q", "\\", "n", "\"">>, <<"\"">>,
     <<Backquote, "x", "\n", "y", Backquote>>,
     <<"$", "_", "H">>, <<"|", "|", " ", "d">>}
RECURSIVE Concat(_)
Concat(parts) == IF Len(parts) = 0 THEN <<>> ELSE Head(parts) \o Concat(Tail(parts))
PieceSources == {Concat(ps) : ps \in UNION {[1..n -> Pieces] : n \in 1..MaxPieces}}

\* the lists of tokens given to the Parser alone: `k: TEXT` and `- TEXT`,
\* TEXT being one VALUE token, a scalar with or without a type annotation
\* (docs/language-specifications.md, 5.3)
AnnotationNames ==
    {<<"I", "N", "T">>, <<"F", "L", "O", "A", "T">>, <<"B", "O", "O", "L">>,
     <<"S", "T", "R", "I", "N", "G">>, <<"N", "U", "L", "L">>, <<"D", "A", "T", "E">>,
     <<"N", "U", "M", "B", "E", "R">>, <<"T", "I", "M", "E">>,
     <<"D", "A", "T", "E", "T", "I", "M", "E">>, <<"D", "U", "R", "A", "T", "I", "O", "N">>,
     <<"A", "R", "R", "A", "Y">>, <<"O", "B", "J", "E", "C", "T">>}
Scalars ==
    {<<"a", "b", "c">>, <<"4", "2">>, <<"4", ".", "5">>, <<"-", "7">>, <<"1", "2", "a">>,
     <<"t", "r", "u", "e">>, <<"!">>, <<"n", "u", "l", "l">>,
     <<"2", "0", "2", "4", "-", "0", "1", "-", "0", "2">>, <<>>}
Annotated(name, scalar) ==
    <<"{">> \o name \o <<"}">> \o (IF scalar = <<>> THEN <<>> ELSE <<" ">> \o scalar)
ValueTexts == Scalars \cup {Annotated(a, s) : a \in AnnotationNames, s \in Scalars}
KeyValueTokens(text) ==
    <<Token("KEY", <<"k">>, 1, 1, 0), Token("COLON", <<":">>, 1, 2, 1),
      Token("VALUE", text, 1, 4, 3), Token("EOF", <<>>, 1, 4 + Len(text), 3 + Len(text))>>
ListItemTokens(text) ==
    <<Token("LIST_ITEM", <<"-">>, 1, 1, 0), Token("VALUE", text, 1, 3, 2),
      Token("EOF", <<>>, 1, 3 + Len(text), 2 + Len(text))>>
ValueTokens == {KeyValueTokens(s) : s \in ValueTexts} \cup {ListItemTokens(s) : s \in ValueTexts}

\* the lines of nested keys: `k:` at every indentation, MaxKeyLines of them
\* at most, so that a block of level 2 can be left for level 1 and go on there
MaxKeyLines == 4
KeySources == Sources({<<"k", ":">>}, MaxKeyLines)

\* the lines indented with tabs (docs/language-specifications.md, 3: "Tabs
\* are automatically converted to 2 spaces"): `k:` behind tabs, behind the
\* spaces that stand for them, and behind both
Margins == {<<>>, <<"\t">>, <<" ", " ">>, <<"\t", "\t">>, <<" ", " ", " ", " ">>,
            <<"\t", " ", " ">>}
TabLines == UNION {[1..n -> {m \o <<"k", ":">> : m \in Margins}] : n \in 1..MaxLines}
TabSources == {JoinLines(ls) : ls \in TabLines} \cup
              {JoinLines(ls) \o <<"\n">> : ls \in TabLines}

\* lists of tokens for the Parser: at most MaxGroups groups of tokens, then
\* EOF. The groups are those a Lexer returns and some it does not
MaxGroups == 3
TokenGroups ==
    {<<"KEY", "COLON">>, <<"KEY", "COLON", "VALUE">>,
     <<"KEY", "COLON", "NEWLINE", "INDENT">>, <<"NEWLINE">>, <<"INDENT">>, <<"DEDENT">>,
     <<"LIST_ITEM", "KEY", "NEWLINE">>, <<"COMMENT", "NEWLINE">>, <<"NOTICE">>,
     <<"NAMESPACE_DECLARATION">>, <<"SECTION_DECLARATION">>, <<"COLON">>,
     <<"KEY", "COLON", "MULTILINE_START", "NEWLINE", "MULTILINE_STRING", "MULTILINE_END">>}
ValueOfType(type) ==
    CASE type = "KEY" -> <<"k">>
      [] type = "COLON" -> <<":">>
      [] type = "VALUE" -> <<"v">>
      [] type = "NEWLINE" -> <<"\n">>
      [] type = "LIST_ITEM" -> <<"-">>
      [] type = "COMMENT" -> <<"/", "/", " ", "c">>
      [] type = "NOTICE" -> <<"/", "!", " ", "a">>
      [] type = "NAMESPACE_DECLARATION" -> <<"@", "-", " ", "n">>
      [] type = "SECTION_DECLARATION" -> <<"@", "/", " ", "s">>
      [] type = "MULTILINE_START" -> <<"|">>
      [] type = "MULTILINE_STRING" -> <<"a">>
      [] OTHER -> <<>>
\* the tokens of the types, one after the other on line 1
TokensOfTypes(types) ==
    [n \in 1..Len(types) |-> Token(types[n], ValueOfType(types[n]), 1, n, n - 1)]
TokenLists ==
    {TokensOfTypes(Concat(gs) \o <<"EOF">>) :
        gs \in UNION {[1..n -> TokenGroups] : n \in 0..MaxGroups}}

\* the contents of a multiline string: the texts of at most MaxContent
\* characters over a letter, a space, a tab and a newline
MaxContent == 5
ContentChars == {"a", " ", "\t", "\n"}
Contents == UNION {[1..n -> ContentChars] : n \in 0..MaxContent}
Formats == {<<"|">>, <<"<">>, <<"|", "+">>}
MultilineStrings ==
    {createMultilineString(StartPosition, c, f) : c \in Contents, f \in Formats}

-----------------------------------------------------------------------------
NoError == [code |-> "none"]

\* the state before a run on the text src with the environment e
Start(src, e) ==
    /\ pc = "tokenize"
    /\ source = src
    /\ env = e
    /\ rawTokens = <<>>
    /\ i = 0
    /\ currentIndent = 0
    /\ lastLineNumber = 1
    /\ indentStack = <<0>>
    /\ tokens = <<>>
    /\ ast = NoError
    /\ data = NoError
    /\ meta = NoError
    /\ error = NoError

\* utils/errors.ts: the ColumnError that the three error classes construct;
\* its message is the template `${code} at line ${line}, column ${column}:
\* ${message}`, kept as the list of its parts
ErrorName(code) ==
    CASE code = "TOKENIZATION_ERROR" -> "TokenizationError"
      [] code = "PARSE_ERROR" -> "ParseError"
      [] code = "INTERPRETATION_ERROR" -> "InterpretationError"
      [] OTHER -> "ColumnError"
ColumnError(message, position, code) ==
    [name |-> ErrorName(code), code |-> code, position |-> position,
     message |-> <<code, " at line ", position.line, ", column ", position.column, ": ",
                   message>>]
\* the error a stage throws, as its caller sees it: parseString rethrows a
\* ColumnError as it is (index.ts, lines 89-92)
\* the state before new Parser(toks).parse()
StartParser(toks) ==
    /\ pc = "lexed"
    /\ source = <<>>
    /\ env = <<>>
    /\ rawTokens = <<>>
    /\ i = 0
    /\ currentIndent = 0
    /\ lastLineNumber = 1
    /\ indentStack = <<0>>
    /\ tokens = toks
    /\ ast = NoError
    /\ data = NoError
    /\ meta = NoError
    /\ error = NoError

Failure(e) ==
    IF "code" \notin DOMAIN e THEN e
    ELSE IF e.code = "TypeError" THEN [name |-> "TypeError", message |-> <<e.message>>]
    ELSE ColumnError(e.message, e.position, e.code)

\* new Tokenizer(source).tokenize(), as the first step of new Lexer(source).lex()
Tokenized(r) ==
    IF r.ok
    THEN /\ rawTokens' = r.tokens
         /\ pc' = "lex"
         /\ error' = error
    ELSE /\ rawTokens' = rawTokens
         /\ pc' = "failed"
         /\ error' = Failure(r.error)
Tokenize ==
    /\ pc = "tokenize"
    /\ Tokenized(tokenize(source))
    /\ UNCHANGED <<source, env, i, currentIndent, lastLineNumber, indentStack,
                   tokens, ast, data, meta>>

LexerState ==
    [i |-> i, currentIndent |-> currentIndent, lastLineNumber |-> lastLineNumber,
     indentStack |-> indentStack, tokens |-> tokens]
SetLexerState(st) ==
    /\ i' = st.i
    /\ currentIndent' = st.currentIndent
    /\ lastLineNumber' = st.lastLineNumber
    /\ indentStack' = st.indentStack
    /\ tokens' = st.tokens

\* Lexer.processTokens: one iteration of its loop
LexStep ==
    /\ pc = "lex"
    /\ i < Len(rawTokens)
    /\ SetLexerState(LexerIteration(rawTokens, LexerState))
    /\ UNCHANGED <<pc, source, env, rawTokens, ast, data, meta, error>>

\* Lexer.processTokens: the end of the file; lex() returns
LexEof ==
    /\ pc = "lex"
    /\ i >= Len(rawTokens)
    /\ SetLexerState(LexerFinish(rawTokens, LexerState))
    /\ pc' = "lexed"
    /\ UNCHANGED <<source, env, rawTokens, ast, data, meta, error>>

\* parseString: new Tokenizer(content).tokenize(); its tokens go to the Parser
\* as they are
ParseStringTokenized(r) ==
    IF r.ok
    THEN /\ rawTokens' = r.tokens
         /\ tokens' = r.tokens
         /\ pc' = "lexed"
         /\ error' = error
    ELSE /\ rawTokens' = rawTokens
         /\ tokens' = tokens
         /\ pc' = "failed"
         /\ error' = Failure(r.error)
ParseStringTokenize ==
    /\ pc = "tokenize"
    /\ ParseStringTokenized(tokenize(source))
    /\ UNCHANGED <<source, env, i, currentIndent, lastLineNumber, indentStack, ast, data,
                   meta>>

\* new Lexer(source).lex() of the second Lexer: processIndentation over the
\* whole list
LexedIndentation(r) ==
    IF r.ok
    THEN /\ tokens' = r.tokens
         /\ indentStack' = r.indentStack
         /\ i' = Len(rawTokens)
         /\ pc' = "lexed"
         /\ error' = error
    ELSE /\ UNCHANGED <<tokens, indentStack, i>>
         /\ pc' = "failed"
         /\ error' = Failure(r.error)
LexIndentation ==
    /\ pc = "lex"
    /\ LexedIndentation(processIndentation(rawTokens, 0, indentStack, tokens))
    /\ UNCHANGED <<source, env, rawTokens, currentIndent, lastLineNumber, ast, data, meta>>

\* new Parser(tokens).parse()
Parsing(r) ==
    IF r.ok
    THEN /\ ast' = r.node
         /\ pc' = "parsed"
         /\ error' = error
    ELSE /\ ast' = ast
         /\ pc' = "failed"
         /\ error' = Failure(r.error)
Parse ==
    /\ pc = "lexed"
    /\ Parsing(parse(tokens))
    /\ UNCHANGED <<source, env, rawTokens, i, currentIndent, lastLineNumber,
                   indentStack, tokens, data, meta>>

\* new Interpreter(ast, {env}).interpret()
Interpret ==
    /\ pc = "parsed"
    /\ data' = interpret(ast, env)
    /\ meta' = interpretMeta(ast)
    /\ pc' = "done"
    /\ UNCHANGED <<source, env, rawTokens, i, currentIndent, lastLineNumber,
                   indentStack, tokens, ast, error>>

\* new Lexer(source).lex() on the texts of the indentation specification
Init == \E src \in SourcesOf(BlockLines) : Start(src, <<>>)
Next == Tokenize \/ LexStep \/ LexEof
Spec == Init /\ [][Next]_vars

\* the tests' interpretContent: Lexer, Parser, Interpreter
InitInterpret ==
    \/ \E src \in SourcesOf(ListLines) \cup SourcesOf(SectionLines) : Start(src, <<>>)
    \/ \E src \in EnvSources, e \in Environments : Start(src, e)
NextInterpret == Tokenize \/ LexStep \/ LexEof \/ Parse \/ Interpret
SpecInterpret == InitInterpret /\ [][NextInterpret]_vars

\* the same pipeline with includeMeta, on the texts that have a head
InitMeta == \E src \in HeadSources : Start(src, <<>>)
NextMeta == Tokenize \/ LexStep \/ LexEof \/ Parse \/ Interpret
SpecMeta == InitMeta /\ [][NextMeta]_vars

\* new Tokenizer(source).tokenize() on the texts made of pieces
InitTokenizer == \E src \in PieceSources : Start(src, <<>>)
NextTokenizer == Tokenize
SpecTokenizer == InitTokenizer /\ [][NextTokenizer]_vars

\* the pipeline with the second Lexer, on the texts of the indentation
\* specification and on the texts made of pieces
InitIndentation == \E src \in SourcesOf(BlockLines) \cup PieceSources : Start(src, <<>>)
NextIndentation == Tokenize \/ LexIndentation \/ Parse \/ Interpret
SpecIndentation == InitIndentation /\ [][NextIndentation]_vars

\* new Parser(tokens).parse() and the Interpreter, on the lists of tokens
InitParser == \E toks \in ValueTokens : StartParser(toks)
NextParser == Parse \/ Interpret
SpecParser == InitParser /\ [][NextParser]_vars

\* the state before interpretMultilineString(node)
StartMultiline(node) ==
    /\ pc = "multiline"
    /\ source = <<>>
    /\ env = <<>>
    /\ rawTokens = <<>>
    /\ i = 0
    /\ currentIndent = 0
    /\ lastLineNumber = 1
    /\ indentStack = <<0>>
    /\ tokens = <<>>
    /\ ast = node
    /\ data = NoError
    /\ meta = NoError
    /\ error = NoError

\* interpretValue on a MultilineString node: the string that
\* interpretMultilineString returns
InterpretMultiline ==
    /\ pc = "multiline"
    /\ data' = JsString(interpretMultilineString(ast))
    /\ pc' = "interpreted"
    /\ UNCHANGED <<source, env, rawTokens, i, currentIndent, lastLineNumber,
                   indentStack, tokens, ast, meta, error>>

\* interpretMultilineString on the multiline strings of MultilineStrings
InitMultiline == \E node \in MultilineStrings : StartMultiline(node)
NextMultiline == InterpretMultiline
SpecMultiline == InitMultiline /\ [][NextMultiline]_vars

\* Lexer.lex() on the texts of nested keys
InitKeys == \E src \in KeySources : Start(src, <<>>)
NextKeys == Tokenize \/ LexStep \/ LexEof
SpecKeys == InitKeys /\ [][NextKeys]_vars

\* Lexer.lex() on the texts indented with tabs
InitTabs == \E src \in TabSources : Start(src, <<>>)
NextTabs == Tokenize \/ LexStep \/ LexEof
SpecTabs == InitTabs /\ [][NextTabs]_vars

\* Parser.parse step by step: `current` is i, the Document under construction
\* is ast. First the notices and the namespace or the sections
ParseStarted(r) ==
    IF r.ok
    THEN /\ ast' = r.node
         /\ i' = r.cur
         /\ pc' = "parsing"
         /\ error' = error
    ELSE /\ ast' = ast
         /\ i' = i
         /\ pc' = "failed"
         /\ error' = Failure(r.error)
ParseStart ==
    /\ pc = "lexed"
    /\ \E r \in {DocumentStart(tokens)} : ParseStarted(r)
    /\ UNCHANGED <<source, env, rawTokens, currentIndent, lastLineNumber, indentStack,
                   tokens, data, meta>>

\* one iteration of the loop over the rest of the document
ParseStepped(r) ==
    IF r.ok
    THEN /\ ast' = [ast EXCEPT !.children = Pushed(@, r.node)]
         /\ i' = r.cur
         /\ pc' = pc
         /\ error' = error
    ELSE /\ ast' = ast
         /\ i' = i
         /\ pc' = "failed"
         /\ error' = Failure(r.error)
ParseStep ==
    /\ pc = "parsing"
    /\ ~isAtEnd(tokens, i)
    /\ \E r \in {DocumentStep(tokens, i)} : ParseStepped(r)
    /\ UNCHANGED <<source, env, rawTokens, currentIndent, lastLineNumber, indentStack,
                   tokens, data, meta>>

\* the end of the loop: parse() returns the Document
ParseReturn ==
    /\ pc = "parsing"
    /\ isAtEnd(tokens, i)
    /\ pc' = "parsed"
    /\ UNCHANGED <<source, env, rawTokens, i, currentIndent, lastLineNumber, indentStack,
                   tokens, ast, data, meta, error>>

\* new Parser(tokens).parse() on the lists of tokens; a call that has begun
\* goes on until it returns or throws
InitParse == \E toks \in TokenLists : StartParser(toks)
NextParse == ParseStart \/ ParseStep \/ ParseReturn
SpecParse == InitParse /\ [][NextParse]_vars
FairParse == SpecParse /\ WF_vars(NextParse)

\* parseString: Tokenizer, Parser, Interpreter
InitParseString == \E src \in SourcesOf(NestLines) : Start(src, <<>>)
NextParseString == ParseStringTokenize \/ Parse \/ Interpret
SpecParseString == InitParseString /\ [][NextParseString]_vars

-----------------------------------------------------------------------------
(* The properties of the specification, as it states them                  *)

Count(toks, type) == Cardinality({n \in 1..Len(toks) : toks[n].type = type})
Has(toks, type) == \E n \in 1..Len(toks) : toks[n].type = type
OfType(toks, type) == SelectSeq(toks, LAMBDA t : t.type = type)
SourceLines == SplitLines(source, <<>>)
\* a line `key:` or `key: value`: the key, and the trimmed text after the colon
ColonAt(line) == CHOOSE n \in 1..Len(line) : line[n] = ":" /\ \A m \in 1..(n - 1) : line[m] # ":"
KeyOf(line) == Trim(SubSeq(line, 1, ColonAt(line) - 1))
AfterColon(line) == Trim(SubSeq(line, ColonAt(line) + 1, Len(line)))
Member(value, key) == value.js = "object" /\ key \in DOMAIN value.fields
Finished == pc \in {"done", "failed"}

\* C1: when Lexer.lex() returns, the list it returns holds as many INDENT
\* tokens as DEDENT tokens.
C1_IndentsMatchDedents ==
    pc = "lexed" => Count(tokens, "INDENT") = Count(tokens, "DEDENT")

\* C2: parseString nests by indentation: when a line `K:` at the margin is
\* followed by a line indented 2 spaces, data[K] is an object that has the key
\* of that line as a member, and so on one level deeper.
C2_ParseStringNests ==
    LET lines == SourceLines
        k1 == KeyOf(lines[1])
        k2 == KeyOf(lines[2])
    IN  (/\ Finished
         /\ Len(lines) >= 2
         /\ AfterColon(lines[1]) = <<>> /\ LeadingSpace(lines[1]) = 0
         /\ Trim(lines[2]) # <<>> /\ LeadingSpace(lines[2]) = 2)
        => /\ pc = "done"
           /\ Member(data, k1)
           /\ Member(data.fields[k1], k2)
           /\ (/\ Len(lines) >= 3
               /\ AfterColon(lines[2]) = <<>>
               /\ Trim(lines[3]) # <<>> /\ LeadingSpace(lines[3]) = 4)
              => Member(data.fields[k1].fields[k2], KeyOf(lines[3]))

\* C3: the tokenizer gives the text that follows a colon on its line as one
\* VALUE token holding that text trimmed, and the line ends after it.
C3_ValueAfterColon ==
    \A n \in 1..Len(rawTokens) :
        (/\ rawTokens[n].type = "COLON"
         /\ AfterColon(SourceLines[rawTokens[n].position.line]) # <<>>)
        => /\ n + 2 <= Len(rawTokens)
           /\ rawTokens[n + 1].type = "VALUE"
           /\ rawTokens[n + 1].value = AfterColon(SourceLines[rawTokens[n].position.line])
           /\ rawTokens[n + 2].type \in {"NEWLINE", "EOF"}

\* the lines after line n that are the body of the block opened on line owner
RECURSIVE BodyLines(_, _, _)
BodyLines(lines, owner, n) ==
    IF /\ n <= Len(lines)
       /\ Trim(lines[n]) # <<>>
       /\ LeadingSpace(lines[n]) > LeadingSpace(lines[owner])
    THEN 1 + BodyLines(lines, owner, n + 1)
    ELSE 0

\* C4: after the first MULTILINE_START, the n body lines (the lines indented
\* deeper than the line of the key) are n MULTILINE_STRING tokens, one for
\* each line, and a MULTILINE_END token follows them.
C4_MultilineBody ==
    pc = "lexed" =>
        \A j \in 1..Len(tokens) :
            LET line == tokens[j].position.line
                n == BodyLines(SourceLines, line, line + 1)
                rest == SelectSeq(SubSeq(tokens, j + 1, Len(tokens)),
                                  LAMBDA t : t.type # "NEWLINE")
            IN  (/\ tokens[j].type = "MULTILINE_START"
                 /\ ~Has(SubSeq(tokens, 1, j - 1), "MULTILINE_START")
                 /\ n >= 1)
                => /\ Len(rest) >= n + 1
                   /\ \A k \in 1..n : rest[k].type = "MULTILINE_STRING"
                   /\ rest[n + 1].type = "MULTILINE_END"

\* a list of one object: `- n:` (with the value v) and, indented below it, `a:`
ListOfObjects(v) ==
    JoinLines(<<<<"u", ":">>,
                <<" ", " ", "-", " ", "n", ":">> \o v,
                <<" ", " ", " ", " ", "a", ":">>>>)
ListValues == {<<>>, <<" ", "J">>}
ObjectOf(key1, value1, key2, value2) ==
    JsObject([k \in {key1, key2} |-> IF k = key1 THEN value1 ELSE value2])

\* C5: a list item `- n: v` with the deeper line `a:` below it is one object
\* {n: v, a: null}, and the value of the key above the list is the array of
\* the objects.
C5_ListOfObjects ==
    \A v \in ListValues :
        (Finished /\ source = ListOfObjects(v))
        => /\ pc = "done"
           /\ data = JsObject([k \in {<<"u">>} |->
                        JsArray(<<ObjectOf(<<"n">>,
                                           IF v = <<>> THEN JsNull ELSE JsString(Trim(v)),
                                           <<"a">>, JsNull)>>)])

\* the value of the reference to EnvName in the environment e
Resolved(e, default) == IF EnvName \in DOMAIN e THEN e[EnvName] ELSE default
EnvData(text) == JsObject([k \in {<<"h">>} |-> JsString(text)])

\* C6: the reference `$_H || D`, as the value of a key or as an item of a
\* list, is the value of H in the environment when H is defined there, else
\* the default D when one is written, else the empty string.
C6_EnvReference ==
    Finished =>
        /\ source \in {EnvReference, EnvReference \o <<"\n">>}
           => pc = "done" /\ data = EnvData(Resolved(env, <<>>))
        /\ \A d \in EnvDefaults :
               source \in {EnvReferenceOr(d), EnvReferenceOr(d) \o <<"\n">>}
               => pc = "done" /\ data = EnvData(Resolved(env, d))
        /\ \A d \in EnvDefaults :
               source = EnvItemOr(d)
               => pc = "done"
                  /\ data = JsObject([k \in {<<"k">>} |->
                                         JsArray(<<JsString(Resolved(env, d))>>)])

\* C7: EOF is the last token of the list that Lexer.lex() returns: the DEDENT
\* tokens of the end of the input come before it.
C7_EofIsLast ==
    pc = "lexed" => Len(tokens) > 0 /\ tokens[Len(tokens)].type = "EOF"

\* C8: the indentation stack is never empty, its bottom is the base level 0,
\* it increases strictly from bottom to top, and it is [0] when lex() returns.
C8_IndentStack ==
    /\ Len(indentStack) > 0
    /\ indentStack[1] = 0
    /\ \A n \in 1..(Len(indentStack) - 1) : indentStack[n] < indentStack[n + 1]
    /\ pc = "lexed" => indentStack = <<0>>

\* C9: Parser.parse() throws a ParseError on a list of tokens that holds a
\* NAMESPACE_DECLARATION and a SECTION_DECLARATION, and no node is built.
C9_NamespaceOrSections ==
    (/\ pc \in {"parsed", "done", "failed"}
     /\ Has(tokens, "NAMESPACE_DECLARATION")
     /\ Has(tokens, "SECTION_DECLARATION"))
    => pc = "failed" /\ error.code = "PARSE_ERROR" /\ ast = NoError

\* a SectionDeclaration among nodes, or among the children of their KeyValues
RECURSIVE HasSection(_)
HasSection(nodes) ==
    \E n \in 1..Len(nodes) :
        \/ nodes[n].type = "SectionDeclaration"
        \/ /\ nodes[n].type = "KeyValue"
           /\ nodes[n].children # JsUndefined
           /\ HasSection(nodes[n].children.items)

\* C10: in a document with sections, Document.sections has one entry for each
\* SECTION_DECLARATION token, in their order, and no SectionDeclaration is
\* among the children of the Document, of a section or of a KeyValue.
C10_SectionsOfDocument ==
    (pc \in {"parsed", "done"} /\ Has(tokens, "SECTION_DECLARATION"))
    => LET declared == OfType(tokens, "SECTION_DECLARATION")
       IN  /\ Len(ast.sections) = Len(declared)
           /\ \A n \in 1..Len(declared) : ast.sections[n].position = declared[n].position
           /\ ~HasSection(ast.children)
           /\ \A n \in 1..Len(ast.sections) : ~HasSection(ast.sections[n].children)

StartsWith(line, marker) ==
    Len(line) >= Len(marker) /\ SubSeq(line, 1, Len(marker)) = marker
IsNoticeLine(line) == StartsWith(line, <<"/", "!">>)
IsCommentLine(line) == StartsWith(line, <<"/", "/">>) \/ StartsWith(line, <<"/", "=", ">">>)
IsNamespaceLine(line) == StartsWith(line, <<"@", "-">>)
\* the number of the leading lines of a text that are empty, or notices or
\* comments when these count
RECURSIVE HeadOf(_, _)
HeadOf(lines, comments) ==
    IF /\ Len(lines) > 0
       /\ \/ lines[1] = <<>>
          \/ comments /\ (IsNoticeLine(lines[1]) \/ IsCommentLine(lines[1]))
    THEN 1 + HeadOf(Tail(lines), comments)
    ELSE 0
\* the notice lines at the head of the text: after its leading empty lines,
\* each of them ended by a newline
HeadNotices ==
    LET lines == SourceLines
        blank == HeadOf(lines, FALSE)
        rest == SubSeq(lines, blank + 1, Len(lines))
        most == IF Len(rest) = 0 THEN 0
                ELSE CHOOSE n \in 0..(Len(rest) - 1) :
                         /\ \A m \in 1..n : IsNoticeLine(rest[m])
                         /\ (n = Len(rest) - 1 \/ ~IsNoticeLine(rest[n + 1]))
    IN  [n \in 1..most |-> Trim(Substring(rest[n], 2))]

\* C11: the notice lines at the head of a file, each ended by a newline and
\* possibly after empty lines, are the first entries of Document.notices, in
\* the order of the source, and meta.notices lists every one of them.
C11_HeadNotices ==
    (Finished /\ Len(HeadNotices) > 0)
    => /\ pc = "done"
       /\ Len(ast.notices) >= Len(HeadNotices)
       /\ \A n \in 1..Len(HeadNotices) :
              /\ ast.notices[n].content = HeadNotices[n]
              /\ meta.notices[n] = HeadNotices[n]

\* the line of the namespace declaration that follows the leading notices,
\* comments and empty lines of the text, or 0
HeadNamespace ==
    LET lines == SourceLines
        head == HeadOf(lines, TRUE)
    IN  IF head < Len(lines) /\ IsNamespaceLine(lines[head + 1]) THEN head + 1 ELSE 0

\* C12: a namespace declaration that follows the leading notices, comments
\* and empty lines of a file is Document.namespace (and meta.namespace), with
\* its name, and is not among the children of the Document.
C12_HeadNamespace ==
    (Finished /\ HeadNamespace > 0)
    => /\ pc = "done"
       /\ ast.namespace # JsUndefined
       /\ ast.namespace.name = Trim(Substring(SourceLines[HeadNamespace], 2))
       /\ ast.namespace.position.line = HeadNamespace
       /\ meta.namespace = JsString(ast.namespace.name)
       /\ \A n \in 1..Len(ast.children) :
              ~(/\ ast.children[n].type = "NamespaceDeclaration"
                /\ ast.children[n].position.line = HeadNamespace)

\* tokenize() has returned the list rawTokens
Returned == pc = "lex"
\* tokenize() has returned or thrown
Tokenizing == pc # "tokenize"
Chars(text) == {text[n] : n \in 1..Len(text)}

\* C13: in the list that tokenize() returns, the offset of a token is not
\* less than the offset of the token before it.
C13_OffsetsAscend ==
    Returned =>
        \A n \in 1..(Len(rawTokens) - 1) :
            rawTokens[n].position.index <= rawTokens[n + 1].position.index

\* the line and the column (1-based) of the character at an offset (0-based)
LineOf(text, index) == 1 + Cardinality({n \in 1..index : text[n] = "\n"})
ColumnOf(text, index) ==
    LET nls == {n \in 1..index : text[n] = "\n"}
    IN  IF nls = {} THEN index + 1
        ELSE index + 1 - (CHOOSE n \in nls : \A m \in nls : m <= n)
\* the characters a lexeme of the type begins with
LexemeStart(token) ==
    CASE token.type \in {"NEWLINE", "COLON", "LIST_ITEM", "MULTILINE_START"} -> token.value
      [] token.type = "COMMENT" -> <<"/", "/">>
      [] token.type = "NOTICE" -> <<"/", "!">>
      [] token.type = "TODO_COMMENT" -> <<"/", "=", ">">>
      [] token.type = "NAMESPACE_DECLARATION" -> <<"@", "-">>
      [] token.type = "SECTION_DECLARATION" -> <<"@", "/">>
      [] token.type = "ENV_VAR" -> <<"$", "_">>
      [] token.type = "RAW_CONTENT" -> <<Backquote>>
      [] token.type = "KEY" -> <<>>
      [] OTHER -> <<>>
\* a KEY is written as it is, or between double quotes
KeyAt(text, token) ==
    \/ CharAt(text, token.position.index) = "\""
    \/ Slice(text, token.position.index, token.position.index + Len(token.value)) = token.value
StartsAt(text, token) ==
    LET index == token.position.index
    IN  /\ index \in 0..Len(text)
        /\ token.position.line = LineOf(text, index)
        /\ token.position.column = ColumnOf(text, index)
        /\ Slice(text, index, index + Len(LexemeStart(token))) = LexemeStart(token)
        /\ token.type = "KEY" => KeyAt(text, token)
        /\ token.type = "EOF" => index = Len(text)

\* C14: every token that tokenize() returns carries the offset of the first
\* character of its lexeme (the source holds the beginning of the lexeme
\* there), and the line and the column of that offset.
C14_PositionIsStart ==
    Returned => \A n \in 1..Len(rawTokens) : StartsAt(source, rawTokens[n])

\* C15: when tokenize() returns, the list holds one EOF token, its last.
C15_OneEofLast ==
    Returned =>
        /\ Len(rawTokens) > 0
        /\ rawTokens[Len(rawTokens)].type = "EOF"
        /\ Count(rawTokens, "EOF") = 1
\* tokenize() has returned a list of several tokens
C15_Returned == Returned /\ Len(rawTokens) > 3

\* a text without quoted keys and raw content: every "\n" of it ends a line
Unquoted(text) == Chars(text) \cap {"\"", Backquote} = {}
HasCrLf(text) == \E n \in 1..(Len(text) - 1) : text[n] = "\r" /\ text[n + 1] = "\n"

\* C18: a text with Windows line endings is tokenized without an error, and
\* every line ending of it, "\r\n" or "\n", is one NEWLINE token.
C18_WindowsLineEndings ==
    (Tokenizing /\ HasCrLf(source) /\ Unquoted(source))
    => /\ Returned
       /\ Count(rawTokens, "NEWLINE") = Cardinality({n \in 1..Len(source) : source[n] = "\n"})

\* a `-` that begins the text or a line and is not followed by a space
DashAt(text, n) ==
    /\ text[n] = "-"
    /\ (n = 1 \/ text[n - 1] = "\n")
    /\ (n = Len(text) \/ text[n + 1] # " ")

\* C19: a `-` at the start of a lexeme that is not followed by a space makes
\* tokenize() throw a TokenizationError, and no KEY that tokenize() returns
\* begins with such a `-`.
C19_DashNeedsSpace ==
    /\ (Tokenizing /\ Unquoted(source) /\ \E n \in 1..Len(source) : DashAt(source, n))
       => pc = "failed" /\ error.code = "TOKENIZATION_ERROR"
    /\ Returned =>
           \A n \in 1..Len(rawTokens) :
               ~(/\ rawTokens[n].type = "KEY"
                 /\ CharAt(source, rawTokens[n].position.index) = "-"
                 /\ Len(rawTokens[n].value) > 0 /\ rawTokens[n].value[1] = "-")

\* the number of the NamespaceDeclaration nodes among nodes, the children of
\* their sections and the children of their KeyValues
RECURSIVE Namespaces(_)
Namespaces(nodes) ==
    IF Len(nodes) = 0 THEN 0
    ELSE LET node == Head(nodes)
             own == IF node.type = "NamespaceDeclaration" THEN 1
                    ELSE IF node.type = "SectionDeclaration" THEN Namespaces(node.children)
                    ELSE IF node.type = "KeyValue" /\ node.children # JsUndefined
                    THEN Namespaces(node.children.items)
                    ELSE 0
         IN  own + Namespaces(Tail(nodes))
NamespacesOf(document) ==
    (IF document.namespace # JsUndefined THEN 1 ELSE 0)
    + Namespaces(document.children \o document.sections)

\* C20: Parser.parse() throws a ParseError on a list of tokens that holds a
\* second NAMESPACE_DECLARATION, and a Document it returns holds one
\* NamespaceDeclaration node at most.
C20_OneNamespace ==
    /\ (pc \in {"parsed", "done", "failed"} /\ Count(tokens, "NAMESPACE_DECLARATION") >= 2)
       => pc = "failed" /\ error.code = "PARSE_ERROR"
    /\ pc \in {"parsed", "done"} => NamespacesOf(ast) <= 1

\* an error of the three classes of utils/errors.ts: its name and its code,
\* its position, and its message `{code} at line L, column C: {message}`
IsColumnError(e) ==
    /\ DOMAIN e = {"name", "code", "position", "message"}
    /\ <<e.name, e.code>> \in {<<"TokenizationError", "TOKENIZATION_ERROR">>,
                                <<"ParseError", "PARSE_ERROR">>,
                                <<"InterpretationError", "INTERPRETATION_ERROR">>}
    /\ {"line", "column"} \subseteq DOMAIN e.position
    /\ Len(e.message) = 7
    /\ SubSeq(e.message, 1, 6) =
           <<e.code, " at line ", e.position.line, ", column ", e.position.column, ": ">>

\* C16: every failure of the pipeline is a TokenizationError, a ParseError or
\* an InterpretationError, with its code, its position and the message
\* `{code} at line L, column C: {message}`.
C16_ColumnErrors == pc = "failed" => IsColumnError(error)

\* the scalar does not have the form of the annotated type (every text is a
\* string, and an integer is a float)
Mismatch(name, scalar) ==
    /\ Str(name) # "STRING"
    /\ detectType(scalar) # Str(name)
    /\ ~(Str(name) = "FLOAT" /\ detectType(scalar) = "INT")

\* C17: for a VALUE `{TYPE} text` whose text does not match TYPE, parse()
\* does not throw, and the Value holds the text converted by the type that
\* is detected from it: for `{INT} abc` the string abc.
C17_AnnotationMismatch ==
    \A a \in AnnotationNames, s \in Scalars :
        (/\ pc \in {"parsed", "done", "failed"}
         /\ tokens = KeyValueTokens(Annotated(a, s))
         /\ Mismatch(a, s))
        => /\ pc # "failed"
           /\ ast.children[1].value.value = convertValue(s, detectType(s))
           /\ (a = <<"I", "N", "T">> /\ s = <<"a", "b", "c">>)
              => ast.children[1].value.value = JsString(<<"a", "b", "c">>)

\* the string is the result of folding a multiline string
Folded == pc = "interpreted" /\ ast.format = <<"<">>

\* C21: folding is idempotent: the fold of a folded string is that string.
C21_FoldIdempotent ==
    Folded => interpretMultilineString(
                  createMultilineString(ast.position, data.s, ast.format)) = data.s

\* a content with two line breaks, the first followed by white space, has
\* been folded into another string
C21_Folded ==
    /\ Folded
    /\ Cardinality({n \in 1..Len(ast.content) : ast.content[n] = "\n"}) = 2
    /\ \E n \in 1..(Len(ast.content) - 1) :
           ast.content[n] = "\n" /\ IsSpace(ast.content[n + 1])
    /\ data.s # ast.content

\* the KeyValue nodes among the nodes and below them
RECURSIVE KeyValuesIn(_)
KeyValuesIn(nodes) ==
    UNION {IF nodes[n].type = "KeyValue"
           THEN {nodes[n]} \cup (IF nodes[n].children = JsUndefined THEN {}
                                 ELSE KeyValuesIn(nodes[n].children.items))
           ELSE IF nodes[n].type = "ListItem" THEN KeyValuesIn(<<nodes[n].value>>)
           ELSE {} : n \in 1..Len(nodes)}

\* the index of the first INDENT token after the token at `position`
IndentAfter(toks, position) ==
    LET k == CHOOSE n \in 1..Len(toks) : toks[n].position = position /\ toks[n].type = "KEY"
    IN  CHOOSE j \in (k + 1)..Len(toks) :
            toks[j].type = "INDENT" /\ \A n \in (k + 1)..(j - 1) : toks[n].type # "INDENT"

\* the DEDENT tokens after the INDENT at j that close its block: one more
\* DEDENT than INDENT since j
Closes(toks, j, m) ==
    /\ toks[m].type = "DEDENT"
    /\ Cardinality({n \in (j + 1)..m : toks[n].type = "DEDENT"}) =
           Cardinality({n \in (j + 1)..m : toks[n].type = "INDENT"}) + 1

\* kv has a block that a DEDENT closes
HasClosedBlock(toks, kv) ==
    /\ kv.children # JsUndefined
    /\ \E m \in 1..Len(toks) : m > IndentAfter(toks, kv.position) /\
                               Closes(toks, IndentAfter(toks, kv.position), m)

\* the line of the DEDENT that matches the INDENT of kv's block
BlockEnd(toks, kv) ==
    LET j == IndentAfter(toks, kv.position)
        m == CHOOSE m \in (j + 1)..Len(toks) :
                 Closes(toks, j, m) /\ \A n \in (j + 1)..(m - 1) : ~Closes(toks, j, n)
    IN  toks[m].position.line

\* C22: the children of a KeyValue are statements between the INDENT after
\* its line and the matching DEDENT: no statement after that DEDENT is among
\* them.
C22_ChildrenInsideBlock ==
    pc \in {"parsed", "done"} =>
        \A kv \in KeyValuesIn(ast.children) :
            HasClosedBlock(tokens, kv) =>
                \A n \in 1..Len(kv.children.items) :
                    kv.children.items[n].position.line < BlockEnd(tokens, kv)

\* the token the loop of processTokens is at is the NEWLINE of an empty line
AtEmptyLine ==
    /\ pc = "lex"
    /\ i < Len(rawTokens)
    /\ rawTokens[i + 1].type = "NEWLINE"
    /\ SourceLines[rawTokens[i + 1].position.line] = <<>>

\* C23: an empty line produces only its NEWLINE token: no INDENT, no DEDENT,
\* and the indentation stack stays as it is.
C23_EmptyLine ==
    [][AtEmptyLine => /\ tokens' = Append(tokens, rawTokens[i + 1])
                      /\ indentStack' = indentStack]_vars

\* the indentation level of a line: calculateIndent of its leading spaces
LevelOf(line) == calculateIndent(LeadingSpace(line))

\* lines n and n + 1 of the source are not empty and have the same level
SameLevel(lines, n) ==
    /\ n + 1 <= Len(lines)
    /\ Trim(lines[n]) # <<>>
    /\ Trim(lines[n + 1]) # <<>>
    /\ LevelOf(lines[n]) = LevelOf(lines[n + 1])

\* C24: between two consecutive non-empty lines of the same indentation
\* level, lex() emits no INDENT and no DEDENT, whatever the lines before.
C24_SameLevelNoIndent ==
    pc = "lexed" =>
        \A n \in 1..Len(SourceLines) :
            SameLevel(SourceLines, n) =>
                \A k \in 1..Len(tokens) :
                    (tokens[k].type \in {"INDENT", "DEDENT"} /\ k < Len(tokens)
                     /\ tokens[k + 1].type \notin {"INDENT", "DEDENT", "EOF"})
                    => tokens[k + 1].position.line # n + 1

\* the same for the texts that leave a block of level 2 for level 1, a level
\* that was never pushed, and go on there
SameLevelAfterDedent ==
    (/\ Len(SourceLines) >= 4
     /\ LevelOf(SourceLines[1]) = 0
     /\ LevelOf(SourceLines[2]) = 2
     /\ LevelOf(SourceLines[3]) = 1)
    => C24_SameLevelNoIndent

\* the Document that Lexer and Parser make of the text src is the Document doc
\* in its notices, namespace, sections and children
SameDocument(src, doc) ==
    With(tokenize(src), LAMBDA t :
        /\ t.ok
        /\ With(parse(lex(t.tokens)), LAMBDA r :
               /\ r.ok
               /\ r.node.notices = doc.notices
               /\ r.node.namespace = doc.namespace
               /\ r.node.sections = doc.sections
               /\ r.node.children = doc.children))

\* C25: a final newline does not change the outcome: when lexing and parsing
\* a text succeeds, they succeed on the text followed by a newline, and the
\* Document has the same notices, namespace, sections and children.
C25_FinalNewline ==
    pc \in {"parsed", "done"} => SameDocument(source \o <<"\n">>, ast)

\* the same for the texts that do not end with a newline
FinalNewlineAdded ==
    (source # <<>> /\ source[Len(source)] # "\n") => C25_FinalNewline

\* the text with two spaces for every tab
RECURSIVE Untabbed(_)
Untabbed(s) ==
    IF s = <<>> THEN <<>>
    ELSE IF s[1] = "\t" THEN <<" ", " ">> \o Untabbed(Tail(s))
    ELSE <<s[1]>> \o Untabbed(Tail(s))

TypesOf(toks) == [n \in 1..Len(toks) |-> toks[n].type]

\* C26: a leading tab counts as 2 spaces for the indentation level: the
\* tokens lex() returns have the types of the tokens it returns for the text
\* with two spaces for every tab.
C26_TabsAreTwoSpaces ==
    pc = "lexed" => TypesOf(tokens) = TypesOf(lex(tokenize(Untabbed(source)).tokens))

\* the Document built step by step is the Document of parse
StepsAgree ==
    /\ pc = "parsed" => parse(tokens) = Parsed(ast, i)
    /\ pc = "failed" => ~parse(tokens).ok /\ Failure(parse(tokens).error) = error

\* C27: Parser.parse() halts on every list of tokens that ends with EOF: it
\* returns a Document or throws.
C27_ParseHalts == <>(pc \in {"parsed", "failed"})

\* parse has returned after more than one iteration of its loop, one of them
\* over a nested block
C27_Returned ==
    /\ pc = "parsed"
    /\ Len(ast.children) >= 2
    /\ \E n \in 1..Len(ast.children) :
           /\ ast.children[n].type = "KeyValue"
           /\ ast.children[n].children # JsUndefined
           /\ ast.children[n].children.items # <<>>

C29_AnnotationResolves ==
    \A a \in AnnotationNames, s \in Scalars :
        (pc \in {"parsed", "done"} /\ tokens = KeyValueTokens(Annotated(a, s)))
        => ast.children[1].value.value = convertValue(s, Str(a))

\* the text and the place of each token, without its type
TextsOf(toks) == [n \in 1..Len(toks) |-> [value |-> toks[n].value, position |-> toks[n].position]]

\* the tokens the Lexer inserts
Inserted(token) == token.type \in {"INDENT", "DEDENT", "MULTILINE_END"}

\* C30: lex() only inserts and retags: without the INDENT, DEDENT and
\* MULTILINE_END tokens, the list it returns holds the tokens of the
\* Tokenizer, each with its text, in their order, and none is dropped.
C30_NoTokenDropped ==
    pc = "lexed" =>
        TextsOf(SelectSeq(tokens, LAMBDA t : ~Inserted(t))) = TextsOf(rawTokens)

====
